---- MODULE Spec2Model ----
(***************************************************************************)
(* A model of the DISMANTLE AI dashboard (src/app.py): the URL normaliser  *)
(* preprocess_url, the agent client call_bedrock_agent, the history        *)
(* listing get_s3_analysis_history, the artifact presenter                 *)
(* display_analysis_results and the script main() that Streamlit runs      *)
(* from top to bottom once per user interaction.                           *)
(*                                                                         *)
(* Text (a Python str) is a sequence of code points, bytes are a sequence  *)
(* of integers 0..255.                                                     *)
(***************************************************************************)
EXTENDS Integers, Sequences, FiniteSets, TLC

VARIABLES
    pc,         \* position of the modelled operation
    raw_url,    \* preprocess_url: the text handed in
    url,        \* preprocess_url: the text returned
    prev_url,   \* the text returned by the application before the last one
    agent_in,   \* call_bedrock_agent: what the environment and the agent service do
    agent_out,  \* call_bedrock_agent: how the call ended
    store_in,   \* get_s3_analysis_history: what the environment and the store do
    store_out,  \* get_s3_analysis_history: how the call ended
    fetch_in,   \* loading the selected analysis: the key, the environment, the object
    fetch_out,  \* loading the selected analysis: what was shown
    ui          \* main: the session and what the latest script run did

urlVars == <<raw_url, url, prev_url>>
agentVars == <<agent_in, agent_out>>
storeVars == <<store_in, store_out, fetch_in, fetch_out>>
uiVars == <<ui>>
vars == <<pc, urlVars, agentVars, storeVars, uiVars>>

\* The value of the variables of an operation that is not running.
Idle == "idle"

(***************************************************************************)
(* Bounds of the model.                                                    *)
(***************************************************************************)
MaxUrlTokens == 3
MaxChunks == 3
MaxEntries == 3
MaxTime == 3
MaxDeviations == 2
MaxRuns == 3

(***************************************************************************)
(* Text.                                                                   *)
(***************************************************************************)
\* The printable ASCII characters, code points 32..126 in order (the grave
\* accent, 96, is spelled out: it is in no text of the model).
Ascii ==
    << " ", "!", "\"", "#", "$", "%", "&", "'", "(", ")", "*", "+", ",", "-",
       ".", "/", "0", "1", "2", "3", "4", "5", "6", "7", "8", "9", ":", ";",
       "<", "=", ">", "?", "@", "A", "B", "C", "D", "E", "F", "G", "H", "I",
       "J", "K", "L", "M", "N", "O", "P", "Q", "R", "S", "T", "U", "V", "W",
       "X", "Y", "Z", "[", "\\", "]", "^", "_", "(grave)", "a", "b", "c", "d", "e",
       "f", "g", "h", "i", "j", "k", "l", "m", "n", "o", "p", "q", "r", "s",
       "t", "u", "v", "w", "x", "y", "z", "{", "|", "}", "~" >>

\* ord(c) of a one-character string.
Ord(c) ==
    CASE c = "\t" -> 9
      [] c = "\n" -> 10
      [] c = "\r" -> 13
      [] OTHER -> 31 + (CHOOSE i \in 1..Len(Ascii) : Ascii[i] = c)

\* The str written as a tuple of one-character strings.
T(cs) == [i \in 1..Len(cs) |-> Ord(cs[i])]

MaxOf(S) == CHOOSE m \in S : \A k \in S : k <= m
MinOf(S) == CHOOSE m \in S : \A k \in S : m <= k

RECURSIVE Concat(_)
\* "".join(parts), joined by halves
Concat(parts) ==
    CASE Len(parts) = 0 -> <<>>
      [] Len(parts) = 1 -> parts[1]
      [] OTHER ->
            LET h == Len(parts) \div 2
            IN  Concat(SubSeq(parts, 1, h)) \o Concat(SubSeq(parts, h + 1, Len(parts)))

\* s.startswith(prefix)
StartsWith(s, prefix) ==
    /\ Len(s) >= Len(prefix)
    /\ SubSeq(s, 1, Len(prefix)) = prefix

\* c.isspace(): the characters str.strip() removes.
IsSpace(c) ==
    c \in (9..13) \cup (28..32) \cup {133, 160, 5760} \cup (8192..8202)
            \cup {8232, 8233, 8239, 8287, 12288}

RECURSIVE LStrip(_)
LStrip(s) ==
    IF s # <<>> /\ IsSpace(Head(s)) THEN LStrip(Tail(s)) ELSE s

RECURSIVE RStrip(_)
RStrip(s) ==
    IF s # <<>> /\ IsSpace(s[Len(s)]) THEN RStrip(SubSeq(s, 1, Len(s) - 1)) ELSE s

\* s.strip()
Strip(s) == LStrip(RStrip(s))

(***************************************************************************)
(* preprocess_url.                                                         *)
(***************************************************************************)
SLASH == Ord("/")
HTTP == T(<<"h", "t", "t", "p", ":", "/", "/">>)
HTTPS == T(<<"h", "t", "t", "p", "s", ":", "/", "/">>)
WWW == T(<<"w", "w", "w", ".">>)
HTTPS_WWW == T(<<"h", "t", "t", "p", "s", ":", "/", "/", "w", "w", "w", ".">>)

\* The characters whose presence keeps a scheme-less text from being prefixed.
InvalidUrlChars == {Ord("/"), Ord(" "), Ord("\n"), Ord("\t")}

\* A slip of the loop below: if for while.
RStripSlashOnce(s) ==
    IF s # <<>> /\ s[Len(s)] = SLASH THEN SubSeq(s, 1, Len(s) - 1) ELSE s

RECURSIVE RStripSlash(_)
\* while url.endswith('/'): url = url[:-1]
RStripSlash(s) ==
    IF s # <<>> /\ s[Len(s)] = SLASH
    THEN RStripSlash(SubSeq(s, 1, Len(s) - 1))
    ELSE s

\* The protocol branch of preprocess_url, on the trimmed, slash-stripped text.
AddProtocol(s) ==
    IF ~(StartsWith(s, HTTP) \/ StartsWith(s, HTTPS))
    THEN IF StartsWith(s, WWW)
         THEN HTTPS \o s
         ELSE IF ~(\E i \in 1..Len(s) : s[i] \in InvalidUrlChars)
              THEN HTTPS_WWW \o s
              ELSE s
    ELSE s

preprocess_url(u) ==
    LET stripped == Strip(u)
    IN  IF stripped = <<>>
        THEN stripped
        ELSE AddProtocol(RStripSlash(stripped))

(***************************************************************************)
(* The texts preprocess_url is applied to: up to MaxUrlTokens pieces, each *)
(* a prefix the function looks for or a character it treats specially.     *)
(***************************************************************************)
UrlTokens ==
    { HTTP, HTTPS, WWW, T(<<"a">>), T(<<"/">>), T(<<" ">>), T(<<"\t">>),
      T(<<"\n">>), T(<<"\r">>) }

UrlInputs ==
    { Concat(ts) : ts \in UNION { [1..n -> UrlTokens] : n \in 0..MaxUrlTokens } }

InitUrl ==
    /\ pc = "url_input"
    /\ raw_url \in UrlInputs
    /\ url = <<>>
    /\ prev_url = <<>>
    /\ agent_in = Idle /\ agent_out = Idle
    /\ store_in = Idle /\ store_out = Idle
    /\ fetch_in = Idle /\ fetch_out = Idle
    /\ ui = Idle

\* url = preprocess_url(raw_url)
Preprocess ==
    /\ pc = "url_input"
    /\ url' = preprocess_url(raw_url)
    /\ prev_url' = url
    /\ pc' = "url_done"
    /\ UNCHANGED <<raw_url, agentVars, storeVars, uiVars>>

\* The text returned is handed in again.
PreprocessAgain ==
    /\ pc = "url_done"
    /\ raw_url' = url
    /\ url' = preprocess_url(url)
    /\ prev_url' = url
    /\ pc' = "url_again"
    /\ UNCHANGED <<agentVars, storeVars, uiVars>>

NextUrl == Preprocess \/ PreprocessAgain

SpecUrl == InitUrl /\ [][NextUrl]_vars

(***************************************************************************)
(* Claims about preprocess_url.                                            *)
(***************************************************************************)
\* The case analysis of the URL Normalizer, stated on positions of the text
\* instead of by the loops of the code: `blocking` is the set of characters
\* that keep a scheme-less text from getting the https://www. prefix.
SpaceChars == {c \in 0..12288 : IsSpace(c)}

Trimmed(x) ==
    LET keep == {i \in 1..Len(x) : x[i] \notin SpaceChars}
    IN  IF keep = {} THEN <<>> ELSE SubSeq(x, MinOf(keep), MaxOf(keep))

WithoutTrailingSlashes(t) ==
    LET keep == {i \in 1..Len(t) : t[i] # SLASH}
    IN  IF keep = {} THEN <<>> ELSE SubSeq(t, 1, MaxOf(keep))

CaseAnalysis(x, blocking) ==
    LET s == WithoutTrailingSlashes(Trimmed(x))
    IN  CASE Trimmed(x) = <<>> -> <<>>
          [] Trimmed(x) # <<>> /\ (StartsWith(s, HTTP) \/ StartsWith(s, HTTPS)) -> s
          [] Trimmed(x) # <<>> /\ ~(StartsWith(s, HTTP) \/ StartsWith(s, HTTPS))
                /\ StartsWith(s, WWW) -> HTTPS \o s
          [] Trimmed(x) # <<>> /\ ~(StartsWith(s, HTTP) \/ StartsWith(s, HTTPS))
                /\ ~StartsWith(s, WWW)
                /\ (\A i \in 1..Len(s) : s[i] \notin blocking) -> HTTPS_WWW \o s
          [] OTHER -> s

\* C4: preprocess_url is idempotent: applying it to its own result returns
\* that result unchanged, for every input text.
C4_Idempotent ==
    pc = "url_again" => url = prev_url

\* C5 as claimed: preprocess_url returns the result of the case analysis in
\* which any whitespace character, '/', newline or tab inside the trimmed,
\* slash-stripped text keeps it from being prefixed with https://www.
C5_CaseAnalysisAnyWhitespace ==
    pc # "url_input" => url = CaseAnalysis(raw_url, SpaceChars \cup {SLASH})

\* C5 amended: preprocess_url returns the result of the case analysis in
\* which only '/', the space character, newline and tab keep the trimmed,
\* slash-stripped text from being prefixed with https://www.; any other
\* whitespace character inside the text does not.
C5_CaseAnalysis ==
    pc # "url_input" =>
        url = CaseAnalysis(raw_url, {Ord("/"), Ord(" "), Ord("\n"), Ord("\t")})

\* C5 witness: a text with trailing slashes and a carriage return inside it
\* has been prefixed with https://www.
C5_Witness ==
    /\ pc = "url_done"
    /\ raw_url # <<>> /\ raw_url[Len(raw_url)] = SLASH
    /\ \E i \in 1..Len(url) : url[i] = Ord("\r")
    /\ StartsWith(url, HTTPS_WWW)
    /\ ~StartsWith(raw_url, HTTPS_WWW)

(***************************************************************************)
(* bytes.decode("utf-8") and str.encode("utf-8").                          *)
(***************************************************************************)
IsCont(b) == b \in 128..191

\* The range the second byte of a sequence must lie in, by its lead byte.
SecondByteRange(lead) ==
    CASE lead = 224 -> 160..191
      [] lead = 237 -> 128..159
      [] lead = 240 -> 144..191
      [] lead = 244 -> 128..143
      [] OTHER -> 128..191

UnicodeDecodeError ==
    T(<<"'", "u", "t", "f", "-", "8", "'", " ", "c", "o", "d", "e", "c",
        " ", "c", "a", "n", "'", "t", " ", "d", "e", "c", "o", "d", "e", " ",
        "b", "y", "t", "e">>)

RECURSIVE DecodeFrom(_, _, _)
\* The strict decoder, from byte i on: [ok, text]. A run of ASCII bytes is
\* taken in one step.
DecodeFrom(b, i, acc) ==
    IF i > Len(b) THEN [ok |-> TRUE, text |-> acc]
    ELSE LET c == b[i]
             n == Len(b)
             bad == [ok |-> FALSE, text |-> acc]
             high == {j \in i..n : b[j] >= 128}
             next == IF high = {} THEN n + 1 ELSE MinOf(high)
         IN  CASE c < 128 -> DecodeFrom(b, next, acc \o SubSeq(b, i, next - 1))
               [] c \in 194..223 ->
                    IF i + 1 <= n /\ IsCont(b[i + 1])
                    THEN DecodeFrom(b, i + 2,
                            Append(acc, (c - 192) * 64 + (b[i + 1] - 128)))
                    ELSE bad
               [] c \in 224..239 ->
                    IF /\ i + 2 <= n
                       /\ b[i + 1] \in SecondByteRange(c)
                       /\ IsCont(b[i + 2])
                    THEN DecodeFrom(b, i + 3,
                            Append(acc, (c - 224) * 4096 + (b[i + 1] - 128) * 64
                                            + (b[i + 2] - 128)))
                    ELSE bad
               [] c \in 240..244 ->
                    IF /\ i + 3 <= n
                       /\ b[i + 1] \in SecondByteRange(c)
                       /\ IsCont(b[i + 2])
                       /\ IsCont(b[i + 3])
                    THEN DecodeFrom(b, i + 4,
                            Append(acc, (c - 240) * 262144 + (b[i + 1] - 128) * 4096
                                            + (b[i + 2] - 128) * 64 + (b[i + 3] - 128)))
                    ELSE bad
               [] OTHER -> bad

\* bytes.decode("utf-8"): [ok, text]; not ok is a UnicodeDecodeError.
Utf8Decode(b) == DecodeFrom(b, 1, <<>>)

\* The bytes of one code point.
EncodeChar(cp) ==
    CASE cp < 128 -> <<cp>>
      [] cp \in 128..2047 -> <<192 + (cp \div 64), 128 + (cp % 64)>>
      [] cp \in 2048..65535 ->
            <<224 + (cp \div 4096), 128 + ((cp \div 64) % 64), 128 + (cp % 64)>>
      [] OTHER ->
            <<240 + (cp \div 262144), 128 + ((cp \div 4096) % 64),
              128 + ((cp \div 64) % 64), 128 + (cp % 64)>>

\* str.encode("utf-8")
Utf8Encode(text) == Concat([i \in 1..Len(text) |-> EncodeChar(text[i])])

(***************************************************************************)
(* The values json.loads returns: a record of one shape for every Python   *)
(* type, t being the type's name. A dict keeps its keys in insertion       *)
(* order; a list keeps its items in vals.                                  *)
(***************************************************************************)
JStr(s) == [t |-> "str", s |-> s, n |-> 0, keys |-> <<>>, vals |-> <<>>]
JInt(n) == [t |-> "int", s |-> <<>>, n |-> n, keys |-> <<>>, vals |-> <<>>]
JBool(b) == [t |-> "bool", s |-> <<>>, n |-> IF b THEN 1 ELSE 0, keys |-> <<>>, vals |-> <<>>]
None == [t |-> "NoneType", s |-> <<>>, n |-> 0, keys |-> <<>>, vals |-> <<>>]
JList(items) == [t |-> "list", s |-> <<>>, n |-> 0, keys |-> <<>>, vals |-> items]
JDict(keys, vals) == [t |-> "dict", s |-> <<>>, n |-> 0, keys |-> keys, vals |-> vals]

\* key in d, for a dict d
HasKey(d, key) == \E i \in 1..Len(d.keys) : d.keys[i] = key

\* d[key], for a dict d that has the key
Lookup(d, key) == d.vals[CHOOSE i \in 1..Len(d.keys) : d.keys[i] = key]

\* d[key] = v: a key already there keeps its place and takes the new value.
DictSet(d, key, v) ==
    IF HasKey(d, key)
    THEN JDict(d.keys, [i \in 1..Len(d.keys) |->
                            IF d.keys[i] = key THEN v ELSE d.vals[i]])
    ELSE JDict(Append(d.keys, key), Append(d.vals, v))

(***************************************************************************)
(* json.loads, by recursive descent over the characters of the text.       *)
(* Supported: objects, arrays, strings with the two-character escapes,     *)
(* integers, true, false, null. No buffer of the model holds a \u escape,  *)
(* a fraction or an exponent.                                              *)
(***************************************************************************)
QUOTE == Ord("\"")
BACKSLASH == Ord("\\")
LBRACE == Ord("{")
RBRACE == Ord("}")
LBRACKET == Ord("[")
RBRACKET == Ord("]")
COLON == Ord(":")
COMMA == Ord(",")
MINUS == Ord("-")
ZERO == Ord("0")
Digits == Ord("0")..Ord("9")
JsonWhitespace == {Ord(" "), Ord("\t"), Ord("\n"), Ord("\r")}
LIT_true == T(<<"t", "r", "u", "e">>)
LIT_false == T(<<"f", "a", "l", "s", "e">>)
LIT_null == T(<<"n", "u", "l", "l">>)

\* A failed parse (json.JSONDecodeError).
ParseFail == [ok |-> FALSE, v |-> None, i |-> 0]
Parsed(v, i) == [ok |-> TRUE, v |-> v, i |-> i]

\* text[i:].startswith(prefix)
StartsWithAt(text, i, prefix) ==
    /\ i + Len(prefix) - 1 <= Len(text)
    /\ SubSeq(text, i, i + Len(prefix) - 1) = prefix

RECURSIVE SkipWs(_, _)
SkipWs(text, i) ==
    IF i <= Len(text) /\ text[i] \in JsonWhitespace THEN SkipWs(text, i + 1) ELSE i

\* The character a two-character escape stands for, 0 when it is none.
Unescape(c) ==
    CASE c = QUOTE -> QUOTE
      [] c = BACKSLASH -> BACKSLASH
      [] c = SLASH -> SLASH
      [] c = Ord("n") -> 10
      [] c = Ord("t") -> 9
      [] c = Ord("r") -> 13
      [] c = Ord("b") -> 8
      [] c = Ord("f") -> 12
      [] OTHER -> 0

RECURSIVE ScanString(_, _, _)
\* The rest of a string whose opening quote is at i - 1. A run of characters
\* that stand for themselves is taken in one step.
ScanString(text, i, acc) ==
    IF i > Len(text) THEN ParseFail
    ELSE LET c == text[i]
             special == {j \in i..Len(text) :
                            text[j] = QUOTE \/ text[j] = BACKSLASH \/ text[j] < 32}
             next == IF special = {} THEN Len(text) + 1 ELSE MinOf(special)
         IN  CASE c = QUOTE -> Parsed(JStr(acc), i + 1)
               [] c = BACKSLASH ->
                    IF i + 1 <= Len(text) /\ Unescape(text[i + 1]) # 0
                    THEN ScanString(text, i + 2, Append(acc, Unescape(text[i + 1])))
                    ELSE ParseFail
               [] c # QUOTE /\ c # BACKSLASH /\ c < 32 -> ParseFail
               [] OTHER -> ScanString(text, next, acc \o SubSeq(text, i, next - 1))

RECURSIVE ScanDigits(_, _, _)
ScanDigits(text, i, acc) ==
    IF i <= Len(text) /\ text[i] \in Digits
    THEN ScanDigits(text, i + 1, acc * 10 + (text[i] - ZERO))
    ELSE Parsed(JInt(acc), i)

\* An integer: -? (0 | [1-9][0-9]*)
ParseNumber(text, i) ==
    LET neg == text[i] = MINUS
        j == IF neg THEN i + 1 ELSE i
        digits == IF j <= Len(text) /\ text[j] = ZERO
                  THEN Parsed(JInt(0), j + 1)
                  ELSE ScanDigits(text, j, 0)
    IN  IF j > Len(text) \/ text[j] \notin Digits THEN ParseFail
        ELSE IF neg THEN Parsed(JInt(0 - digits.v.n), digits.i) ELSE digits

RECURSIVE ParseValue(_, _)
RECURSIVE ParseMembers(_, _, _)
RECURSIVE ParseItems(_, _, _)

\* The members of an object, from the quote of a key at i on.
ParseMembers(text, i, d) ==
    IF i > Len(text) \/ text[i] # QUOTE THEN ParseFail
    ELSE LET key == ScanString(text, i + 1, <<>>)
             c == SkipWs(text, key.i)
         IN  IF ~key.ok \/ c > Len(text) \/ text[c] # COLON THEN ParseFail
             ELSE LET val == ParseValue(text, c + 1)
                      e == SkipWs(text, val.i)
                  IN  IF ~val.ok \/ e > Len(text) THEN ParseFail
                      ELSE IF text[e] = RBRACE
                           THEN Parsed(DictSet(d, key.v.s, val.v), e + 1)
                      ELSE IF text[e] = COMMA
                           THEN ParseMembers(text, SkipWs(text, e + 1),
                                             DictSet(d, key.v.s, val.v))
                      ELSE ParseFail

\* The items of an array, from the first character of an item at i on.
ParseItems(text, i, items) ==
    LET val == ParseValue(text, i)
        e == SkipWs(text, val.i)
    IN  IF ~val.ok \/ e > Len(text) THEN ParseFail
        ELSE IF text[e] = RBRACKET THEN Parsed(JList(Append(items, val.v)), e + 1)
        ELSE IF text[e] = COMMA THEN ParseItems(text, e + 1, Append(items, val.v))
        ELSE ParseFail

ParseValue(text, i0) ==
    LET i == SkipWs(text, i0)
    IN  IF i > Len(text) THEN ParseFail
        ELSE LET c == text[i]
             IN  CASE c = LBRACE ->
                        LET j == SkipWs(text, i + 1)
                        IN  IF j <= Len(text) /\ text[j] = RBRACE
                            THEN Parsed(JDict(<<>>, <<>>), j + 1)
                            ELSE ParseMembers(text, j, JDict(<<>>, <<>>))
                   [] c = LBRACKET ->
                        LET j == SkipWs(text, i + 1)
                        IN  IF j <= Len(text) /\ text[j] = RBRACKET
                            THEN Parsed(JList(<<>>), j + 1)
                            ELSE ParseItems(text, j, <<>>)
                   [] c = QUOTE -> ScanString(text, i + 1, <<>>)
                   [] c = MINUS \/ c \in Digits -> ParseNumber(text, i)
                   [] StartsWithAt(text, i, LIT_true) -> Parsed(JBool(TRUE), i + 4)
                   [] StartsWithAt(text, i, LIT_false) -> Parsed(JBool(FALSE), i + 5)
                   [] StartsWithAt(text, i, LIT_null) -> Parsed(None, i + 4)
                   [] OTHER -> ParseFail

\* json.loads(text): [ok, v]; not ok is a json.JSONDecodeError (text that is
\* no JSON value, or a value followed by more than whitespace).
Loads(text) ==
    LET r == ParseValue(text, 1)
    IN  IF r.ok /\ SkipWs(text, r.i) = Len(text) + 1
        THEN [ok |-> TRUE, v |-> r.v]
        ELSE [ok |-> FALSE, v |-> None]

(***************************************************************************)
(* json.dumps, the text the agent service sends for a value.               *)
(***************************************************************************)
RECURSIVE IntText(_)
\* str(n), n >= 0
IntText(n) ==
    IF n < 10 THEN <<ZERO + n>> ELSE Append(IntText(n \div 10), ZERO + (n % 10))

EscapeChar(c) ==
    CASE c = QUOTE -> <<BACKSLASH, QUOTE>>
      [] c = BACKSLASH -> <<BACKSLASH, BACKSLASH>>
      [] c = 10 -> <<BACKSLASH, Ord("n")>>
      [] c = 9 -> <<BACKSLASH, Ord("t")>>
      [] c = 13 -> <<BACKSLASH, Ord("r")>>
      [] OTHER -> <<c>>

\* The string literal of a text.
Quoted(s) == <<QUOTE>> \o Concat([i \in 1..Len(s) |-> EscapeChar(s[i])]) \o <<QUOTE>>

RECURSIVE Dumps(_, _)
\* The value as JSON text; `spaced` writes ", " and ": " as json.dumps does,
\* otherwise nothing stands between the tokens.
Dumps(v, spaced) ==
    LET sep == IF spaced THEN <<COMMA, Ord(" ")>> ELSE <<COMMA>>
        col == IF spaced THEN <<COLON, Ord(" ")>> ELSE <<COLON>>
        n == Len(v.vals)
    IN  CASE v.t = "str" -> Quoted(v.s)
          [] v.t = "int" -> IF v.n < 0 THEN <<MINUS>> \o IntText(0 - v.n) ELSE IntText(v.n)
          [] v.t = "bool" -> IF v.n = 1 THEN LIT_true ELSE LIT_false
          [] v.t = "NoneType" -> LIT_null
          [] v.t = "list" ->
                <<LBRACKET>>
                \o Concat([i \in 1..n |->
                        Dumps(v.vals[i], spaced) \o (IF i < n THEN sep ELSE <<>>)])
                \o <<RBRACKET>>
          [] v.t = "dict" ->
                <<LBRACE>>
                \o Concat([i \in 1..n |->
                        Quoted(v.keys[i]) \o col \o Dumps(v.vals[i], spaced)
                            \o (IF i < n THEN sep ELSE <<>>)])
                \o <<RBRACE>>


(***************************************************************************)
(* Subscription and membership on the values of json.loads, with the       *)
(* exceptions Python raises: [ok, v, err], err being str(e).               *)
(***************************************************************************)
Value(v) == [ok |-> TRUE, v |-> v, err |-> <<>>]
Raise(err) == [ok |-> FALSE, v |-> None, err |-> err]

APOSTROPHE == T(<<"'">>)

\* str(KeyError(key)): the repr of the key.
KeyErrorText(key) == APOSTROPHE \o key \o APOSTROPHE

\* The name of a type as a text.
TypeName(t) ==
    CASE t = "int" -> T(<<"i", "n", "t">>)
      [] t = "bool" -> T(<<"b", "o", "o", "l">>)
      [] t = "NoneType" -> T(<<"N", "o", "n", "e", "T", "y", "p", "e">>)
      [] t = "str" -> T(<<"s", "t", "r">>)
      [] t = "list" -> T(<<"l", "i", "s", "t">>)
      [] t = "dict" -> T(<<"d", "i", "c", "t">>)

\* needle in haystack, for two str
IsSubstring(needle, haystack) ==
    \E i \in 1..(Len(haystack) - Len(needle) + 1) :
        SubSeq(haystack, i, i + Len(needle) - 1) = needle

\* v[key] for a str key
GetItem(v, key) ==
    CASE v.t = "dict" ->
            IF HasKey(v, key) THEN Value(Lookup(v, key)) ELSE Raise(KeyErrorText(key))
      [] v.t = "str" ->
            Raise(T(<<"s", "t", "r", "i", "n", "g", " ", "i", "n", "d", "i", "c", "e",
        "s", " ", "m", "u", "s", "t", " ", "b", "e", " ", "i", "n", "t", "e",
        "g", "e", "r", "s", ",", " ", "n", "o", "t", " ", "'", "s", "t", "r",
        "'">>))
      [] v.t = "list" ->
            Raise(T(<<"l", "i", "s", "t", " ", "i", "n", "d", "i", "c", "e", "s", " ",
        "m", "u", "s", "t", " ", "b", "e", " ", "i", "n", "t", "e", "g", "e",
        "r", "s", " ", "o", "r", " ", "s", "l", "i", "c", "e", "s", ",", " ",
        "n", "o", "t", " ", "s", "t", "r">>))
      [] OTHER ->
            Raise(APOSTROPHE \o TypeName(v.t) \o T(<<"'", " ", "o", "b", "j", "e", "c", "t", " ", "i", "s", " ", "n",
        "o", "t", " ", "s", "u", "b", "s", "c", "r", "i", "p", "t", "a", "b",
        "l", "e">>))

\* key in v for a str key: [ok, b, err]
Contains(v, key) ==
    CASE v.t = "dict" -> [ok |-> TRUE, b |-> HasKey(v, key), err |-> <<>>]
      [] v.t = "str" -> [ok |-> TRUE, b |-> IsSubstring(key, v.s), err |-> <<>>]
      [] v.t = "list" ->
            [ok |-> TRUE, b |-> \E i \in 1..Len(v.vals) : v.vals[i] = JStr(key),
             err |-> <<>>]
      [] OTHER ->
            [ok |-> FALSE, b |-> FALSE,
             err |-> T(<<"a", "r", "g", "u", "m", "e", "n", "t", " ", "o", "f", " ", "t",
        "y", "p", "e", " ", "'">>) \o TypeName(v.t)
                        \o T(<<"'", " ", "i", "s", " ", "n", "o", "t", " ", "i", "t", "e", "r",
        "a", "b", "l", "e">>)]

(***************************************************************************)
(* call_bedrock_agent.                                                     *)
(***************************************************************************)
KEY_response == T(<<"r", "e", "s", "p", "o", "n", "s", "e">>)
KEY_functionResponse == T(<<"f", "u", "n", "c", "t", "i", "o", "n", "R", "e", "s", "p", "o",
        "n", "s", "e">>)
KEY_responseBody == T(<<"r", "e", "s", "p", "o", "n", "s", "e", "B", "o", "d", "y">>)
KEY_TEXT == T(<<"T", "E", "X", "T">>)
KEY_body == T(<<"b", "o", "d", "y">>)

\* str(e) of the exceptions of the environment and of the agent service
\* (the texts are cut short).
SecretNotFoundError == T(<<"N", "o", " ", "s", "e", "c", "r", "e", "t", "s", " ", "f", "o",
        "u", "n", "d", ".">>)
UnknownServiceError == T(<<"U", "n", "k", "n", "o", "w", "n", " ", "s", "e", "r", "v", "i",
        "c", "e", ":", " ", "'", "b", "e", "d", "r", "o", "c", "k", "-", "a",
        "g", "e", "n", "t", "-", "r", "u", "n", "t", "i", "m", "e", "'",
        ".">>)
EndpointConnectionError == T(<<"C", "o", "u", "l", "d", " ", "n", "o", "t", " ", "c", "o", "n",
        "n", "e", "c", "t", " ", "t", "o", " ", "t", "h", "e", " ", "e", "n",
        "d", "p", "o", "i", "n", "t", " ", "U", "R", "L">>)
EventStreamError == T(<<"A", "n", " ", "e", "r", "r", "o", "r", " ", "o", "c", "c", "u",
        "r", "r", "e", "d", " ", "(", "t", "h", "r", "o", "t", "t", "l", "i",
        "n", "g", "E", "x", "c", "e", "p", "t", "i", "o", "n", ")">>)

\* What a call produces: whether an exception left the function, the step at
\* which an exception was raised ("none" when none was), the buffer as far as
\* it was assembled, and the dict returned.
NoResponse == [success |-> FALSE, message |-> None, data |-> None]

Propagated(stage, err, buffer) ==
    [raised |-> TRUE, stage |-> stage, full_response |-> buffer,
     response |-> NoResponse]

\* An except clause that lets the exceptions of the payload inspection through.
CaughtUnlessInspecting(stage, err, buffer) ==
    IF stage = "inspect"
    THEN Propagated(stage, err, buffer)
    ELSE [raised |-> FALSE, stage |-> stage, full_response |-> buffer,
          response |-> [success |-> FALSE, message |-> JStr(err), data |-> None]]

\* except Exception as e: return {"success": False, "message": str(e), "data": None}
Caught(stage, err, buffer) ==
    [raised |-> FALSE, stage |-> stage, full_response |-> buffer,
     response |-> [success |-> FALSE, message |-> JStr(err), data |-> None]]

\* Both return statements of the success path giving the raw buffer.
ReturnedRaw(message, buffer) ==
    [raised |-> FALSE, stage |-> "none", full_response |-> buffer,
     response |-> [success |-> TRUE, message |-> JStr(buffer), data |-> None]]

\* return {"success": True, "message": message, "data": None}
Returned(message, buffer) ==
    [raised |-> FALSE, stage |-> "none", full_response |-> buffer,
     response |-> [success |-> TRUE, message |-> message, data |-> None]]

RECURSIVE Drain(_, _)
\* for event in response["completion"]: ... full_response += chunk["bytes"].decode("utf-8")
\* [ok, text]: not ok is the UnicodeDecodeError of a chunk, text the buffer so far.
Drain(events, full_response) ==
    IF events = <<>> THEN [ok |-> TRUE, text |-> full_response]
    ELSE LET event == Head(events)
         IN  IF event.has_chunk /\ event.has_bytes
             THEN LET decoded == Utf8Decode(event.bytes)
                  IN  IF decoded.ok
                      THEN Drain(Tail(events), full_response \o decoded.text)
                      ELSE [ok |-> FALSE, text |-> full_response]
             ELSE Drain(Tail(events), full_response)

\* The try block around json.loads, after the buffer is assembled.
Inspect(full_response) ==
    LET parsed == Loads(full_response)
        response_data == parsed.v
        raw == Returned(JStr(full_response), full_response)
    IN  IF ~parsed.ok THEN raw      \* except json.JSONDecodeError: pass
        ELSE IF ~(response_data.t = "dict" /\ HasKey(response_data, KEY_response))
        THEN raw
        ELSE
        LET function_response ==
                GetItem(Lookup(response_data, KEY_response), KEY_functionResponse)
            has_body == Contains(function_response.v, KEY_responseBody)
            response_body == GetItem(function_response.v, KEY_responseBody)
            has_text == Contains(response_body.v, KEY_TEXT)
            text == GetItem(response_body.v, KEY_TEXT)
            text_response == GetItem(text.v, KEY_body)
        IN  IF ~function_response.ok
            THEN Caught("inspect", function_response.err, full_response)
            ELSE IF ~has_body.ok
            THEN Caught("inspect", has_body.err, full_response)
            ELSE IF ~has_body.b THEN raw
            ELSE IF ~response_body.ok
            THEN Caught("inspect", response_body.err, full_response)
            ELSE IF ~has_text.ok
            THEN Caught("inspect", has_text.err, full_response)
            ELSE IF ~has_text.b THEN raw
            ELSE IF ~text.ok
            THEN Caught("inspect", text.err, full_response)
            ELSE IF ~text_response.ok
            THEN Caught("inspect", text_response.err, full_response)
            ELSE Returned(text_response.v, full_response)

\* os.getenv(name) or st.secrets["aws_credentials"][name] finds a value.
HasCredential(in_environ, env) == in_environ \/ env.secrets

call_bedrock_agent(env) ==
    IF ~HasCredential(env.getenv_key, env)
    THEN Caught("credentials", SecretNotFoundError, <<>>)
    ELSE IF ~HasCredential(env.getenv_secret, env)
    THEN Caught("credentials", SecretNotFoundError, <<>>)
    ELSE IF ~env.client_ok
    THEN Caught("client", UnknownServiceError, <<>>)
    ELSE IF ~env.invoke_ok
    THEN Caught("invoke", EndpointConnectionError, <<>>)
    ELSE LET drained == Drain(env.events, <<>>)
         IN  IF ~drained.ok
             THEN Caught("decode", UnicodeDecodeError, drained.text)
             ELSE IF ~env.stream_ok
             THEN Caught("stream", EventStreamError, drained.text)
             ELSE Inspect(drained.text)

(***************************************************************************)
(* The environments call_bedrock_agent runs in.                            *)
(***************************************************************************)
PathKeys == <<KEY_response, KEY_functionResponse, KEY_responseBody, KEY_TEXT, KEY_body>>
KEY_other == T(<<"o", "t", "h", "e", "r">>)
HELLO == T(<<"h", "e", "l", "l", "o">>)

\* The values that end a document: none is a dict holding a key of the path.
Leaves ==
    { JStr(HELLO), JStr(KEY_responseBody), JStr(KEY_TEXT), JInt(1), None,
      JList(<<JStr(KEY_responseBody), JStr(KEY_TEXT)>>),
      JDict(<<>>, <<>>), JDict(<<KEY_other>>, <<JInt(1)>>) }

RECURSIVE Level(_)
\* The values that may stand where the i-th key of the path is looked up: a
\* leaf, or a dict with that key (alone or after another key) over any value
\* of the next level.
Level(i) ==
    IF i > Len(PathKeys) THEN Leaves
    ELSE Leaves
         \cup { JDict(<<PathKeys[i]>>, <<v>>) : v \in Level(i + 1) }
         \cup { JDict(<<KEY_other, PathKeys[i]>>, <<JInt(1), v>>) : v \in Level(i + 1) }

Documents == Level(1)

\* {"response":{"functionResponse":{"responseBody":{"TEXT":{"body": body}}}}}
Envelope(body) ==
    JDict(<<KEY_response>>, <<JDict(<<KEY_functionResponse>>,
        <<JDict(<<KEY_responseBody>>, <<JDict(<<KEY_TEXT>>,
            <<JDict(<<KEY_body>>, <<body>>)>>)>>)>>)>>)

\* Buffers that are not JSON: empty, plain text, a document cut short, a
\* document followed by more text.
NonJsonBuffers ==
    LET doc == Dumps(Envelope(JStr(HELLO)), FALSE)
    IN  { <<>>, T(<<"p", "l", "a", "i", "n", " ", "t", "e", "x", "t">>), SubSeq(doc, 1, Len(doc) - 1), doc \o doc,
          T(<<"{", "\"", "r", "e", "s", "p", "o", "n", "s", "e", "\"", ":", " ",
        "}">>) }

Buffers == { Dumps(d, spaced) : d \in Documents, spaced \in BOOLEAN } \cup NonJsonBuffers

\* The events of a completion stream.
ChunkEvent(bytes) == [has_chunk |-> TRUE, has_bytes |-> TRUE, bytes |-> bytes]
\* A chunk without a bytes field (it carries an attribution only).
EmptyChunkEvent == [has_chunk |-> TRUE, has_bytes |-> FALSE, bytes |-> <<>>]
\* An event without a chunk (a trace: enableTrace=True).
TraceEvent == [has_chunk |-> FALSE, has_bytes |-> FALSE, bytes |-> <<>>]

\* An environment in which every step up to the stream succeeds.
Healthy(events) ==
    [getenv_key |-> TRUE, getenv_secret |-> TRUE, secrets |-> FALSE,
     client_ok |-> TRUE, invoke_ok |-> TRUE, stream_ok |-> TRUE, events |-> events]

\* The payload cut after each position of `cuts`.
Split(payload, cuts) ==
    LET ends == {Len(payload)} \cup cuts
        StartOf(e) == 1 + (IF \E c \in cuts : c < e
                           THEN MaxOf({c \in cuts : c < e}) ELSE 0)
        RECURSIVE From(_)
        From(start) ==
            IF start > Len(payload) THEN <<>>
            ELSE LET e == MinOf({x \in ends : x >= start})
                 IN  <<SubSeq(payload, start, e)>> \o From(e + 1)
    IN  From(1)

RECURSIVE CutSets(_, _)
\* The sets of at most m positions among 1..k.
CutSets(k, m) ==
    IF k = 0 \/ m = 0 THEN {{}}
    ELSE CutSets(k - 1, m) \cup { c \cup {k} : c \in CutSets(k - 1, m - 1) }

\* Every way of cutting the payload into at most n chunks.
Splits(payload, n) ==
    IF payload = <<>> THEN {<<>>}
    ELSE { Split(payload, cuts) : cuts \in CutSets(Len(payload) - 1, n - 1) }

\* The chunks as events, alone or among events that carry no bytes.
AsEvents(chunks, padded) ==
    IF padded
    THEN <<TraceEvent>>
         \o Concat([i \in 1..Len(chunks) |-> <<ChunkEvent(chunks[i]), EmptyChunkEvent>>])
    ELSE [i \in 1..Len(chunks) |-> ChunkEvent(chunks[i])]

\* Payloads that are cut everywhere: the spec's {"a":1}, and texts with
\* characters of two, three and four bytes.
StreamPayloads ==
    { Utf8Encode(T(<<"{", "\"", "a", "\"", ":", "1", "}">>)),
      Utf8Encode(<<233>>),
      Utf8Encode(<<Ord("a"), 8364, Ord("b")>>),
      Utf8Encode(<<128512>>),
      Utf8Encode(<<QUOTE, 233, QUOTE>>) }

\* Payloads that are no UTF-8 however they are cut.
InvalidPayloads == { <<255>>, <<Ord("a"), 195>> }

AgentEnvs ==
    { Healthy(<<ChunkEvent(Utf8Encode(b))>>) : b \in Buffers }
    \cup { Healthy(AsEvents(chunks, padded)) :
            chunks \in UNION { Splits(p, MaxChunks) : p \in StreamPayloads \cup InvalidPayloads },
            padded \in BOOLEAN }
    \cup { Healthy(AsEvents(chunks, FALSE)) :
            chunks \in Splits(Utf8Encode(Dumps(Envelope(JStr(HELLO)), FALSE)), 2) }
    \cup { [getenv_key |-> k, getenv_secret |-> s, secrets |-> f, client_ok |-> c,
            invoke_ok |-> i, stream_ok |-> d,
            events |-> <<ChunkEvent(Utf8Encode(HELLO))>>] :
            k \in BOOLEAN, s \in BOOLEAN, f \in BOOLEAN, c \in BOOLEAN,
            i \in BOOLEAN, d \in BOOLEAN }

InitAgent ==
    /\ pc = "agent_ready"
    /\ agent_in \in AgentEnvs
    /\ agent_out = Idle
    /\ raw_url = Idle /\ url = Idle /\ prev_url = Idle
    /\ store_in = Idle /\ store_out = Idle
    /\ fetch_in = Idle /\ fetch_out = Idle
    /\ ui = Idle

\* response = call_bedrock_agent(prompt)
InvokeAgent ==
    /\ pc = "agent_ready"
    /\ agent_out' = call_bedrock_agent(agent_in)
    /\ pc' = "agent_done"
    /\ UNCHANGED <<agent_in, urlVars, storeVars, uiVars>>

NextAgent == InvokeAgent

SpecAgent == InitAgent /\ [][NextAgent]_vars

(***************************************************************************)
(* Claims about call_bedrock_agent.                                        *)
(***************************************************************************)
\* The bytes the stream carries: the bytes fields of its chunks, in order.
Payload(events) ==
    Concat([i \in 1..Len(events) |->
                IF events[i].has_chunk /\ events[i].has_bytes
                THEN events[i].bytes ELSE <<>>])

\* The call gets as far as reading the stream.
StreamOpened(env) ==
    /\ env.getenv_key \/ env.secrets
    /\ env.getenv_secret \/ env.secrets
    /\ env.client_ok
    /\ env.invoke_ok

\* A failure of the environment or of the service, read off the environment.
EnvFault(env) ==
    \/ ~StreamOpened(env)
    \/ ~env.stream_ok
    \/ \E i \in 1..Len(env.events) :
            /\ env.events[i].has_chunk /\ env.events[i].has_bytes
            /\ ~Utf8Decode(env.events[i].bytes).ok

RECURSIVE PathExists(_, _)
\* The value is a dict that holds the nested path of keys.
PathExists(v, keys) ==
    \/ keys = <<>>
    \/ /\ v.t = "dict"
       /\ HasKey(v, Head(keys))
       /\ PathExists(Lookup(v, Head(keys)), Tail(keys))

RECURSIVE PathValue(_, _)
\* The value at the nested path of keys.
PathValue(v, keys) ==
    IF keys = <<>> THEN v ELSE PathValue(Lookup(v, Head(keys)), Tail(keys))

\* The buffer is a JSON object of the shape
\* response.functionResponse.responseBody.TEXT.body.
MatchesEnvelope(buffer) ==
    /\ Loads(buffer).ok
    /\ PathExists(Loads(buffer).v, PathKeys)

\* C1: call_bedrock_agent never raises to its caller, and whenever a step of
\* the call fails (credential lookup, client creation, the invoke request,
\* iterating the stream, decoding a chunk, inspecting the parsed payload) it
\* returns success == false, a non-empty message and data == null.
C1_FailureIsReturned ==
    pc = "agent_done" =>
        /\ ~agent_out.raised
        /\ (EnvFault(agent_in) \/ agent_out.stage # "none") =>
                /\ agent_out.response.success = FALSE
                /\ agent_out.response.message.t = "str"
                /\ agent_out.response.message.s # <<>>
                /\ agent_out.response.data = None

\* C1 witness: the inspection of a parsed payload failed (a JSON object whose
\* "response" has no "functionResponse") and the failure was returned.
C1_Witness ==
    /\ pc = "agent_done"
    /\ ~EnvFault(agent_in)
    /\ agent_out.stage = "inspect"
    /\ agent_out.response.success = FALSE
    /\ agent_out.response.message = JStr(KeyErrorText(KEY_functionResponse))

\* C2: for every fully drained buffer that does not match the envelope shape
\* (not JSON, not an object, no "response" key, or a "response" value that
\* lacks functionResponse, responseBody, TEXT or body), the call returns
\* success == true with the raw buffer as the message.
C2_MismatchReturnsRawBuffer ==
    (/\ pc = "agent_done"
     /\ ~EnvFault(agent_in)
     /\ ~MatchesEnvelope(agent_out.full_response))
    => /\ agent_out.response.success = TRUE
       /\ agent_out.response.message = JStr(agent_out.full_response)

\* C3: the buffer assembled before parsing is the text of the whole payload,
\* wherever the chunk boundaries fall and whatever events without bytes lie
\* among the chunks.
C3_BufferIsPayloadText ==
    (/\ pc = "agent_done"
     /\ StreamOpened(agent_in)
     /\ Utf8Decode(Payload(agent_in.events)).ok)
    => agent_out.full_response = Utf8Decode(Payload(agent_in.events)).text

\* C10: for every buffer that parses as a JSON object holding the nested path
\* response.functionResponse.responseBody.TEXT.body, the call returns
\* success == true, data == null and the value at that path as the message.
C10_EnvelopeBodyIsMessage ==
    (/\ pc = "agent_done"
     /\ ~EnvFault(agent_in)
     /\ MatchesEnvelope(agent_out.full_response))
    => /\ agent_out.response.success = TRUE
       /\ agent_out.response.data = None
       /\ agent_out.response.message
            = PathValue(Loads(agent_out.full_response).v, PathKeys)

\* C10 witness: the envelope around "hello", delivered in two chunks, was
\* answered with the message "hello", which is not the raw buffer.
C10_Witness ==
    /\ pc = "agent_done"
    /\ Len(agent_in.events) = 2
    /\ agent_out.full_response = Dumps(Envelope(JStr(HELLO)), FALSE)
    /\ agent_out.response.success = TRUE
    /\ agent_out.response.message = JStr(HELLO)
    /\ agent_out.response.message # JStr(agent_out.full_response)

(***************************************************************************)
(* get_s3_analysis_history.                                                *)
(***************************************************************************)
ClientError == T(<<"A", "n", " ", "e", "r", "r", "o", "r", " ", "o", "c", "c", "u",
        "r", "r", "e", "d", " ", "(", "A", "c", "c", "e", "s", "s", "D", "e",
        "n", "i", "e", "d", ")", " ", "w", "h", "e", "n", " ", "c", "a", "l",
        "l", "i", "n", "g", " ", "t", "h", "e", " ", "L", "i", "s", "t", "O",
        "b", "j", "e", "c", "t", "s", "V", "2", " ", "o", "p", "e", "r", "a",
        "t", "i", "o", "n">>)
FETCH_HISTORY_FAILED == T(<<"F", "a", "i", "l", "e", "d", " ", "t", "o", " ", "f", "e", "t",
        "c", "h", " ", "a", "n", "a", "l", "y", "s", "i", "s", " ", "h", "i",
        "s", "t", "o", "r", "y", ":", " ">>)

RECURSIVE InsertDescending(_, _)
\* x put after the last entry that is not older than it.
InsertDescending(sorted, x) ==
    IF sorted = <<>> THEN <<x>>
    ELSE IF Head(sorted).LastModified >= x.LastModified
         THEN <<Head(sorted)>> \o InsertDescending(Tail(sorted), x)
         ELSE <<x>> \o sorted

RECURSIVE InsertAscending(_, _)
InsertAscending(sorted, x) ==
    IF sorted = <<>> THEN <<x>>
    ELSE IF Head(sorted).LastModified <= x.LastModified
         THEN <<Head(sorted)>> \o InsertAscending(Tail(sorted), x)
         ELSE <<x>> \o sorted

RECURSIVE SortedAscending(_)
\* The sort below without reverse=True.
SortedAscending(contents) ==
    IF contents = <<>> THEN <<>>
    ELSE InsertAscending(SortedAscending(SubSeq(contents, 1, Len(contents) - 1)),
                         contents[Len(contents)])

RECURSIVE SortedByLastModified(_)
\* sorted(contents, key=lambda x: x['LastModified'], reverse=True): a stable
\* sort, entries of one LastModified keep the order they came in.
SortedByLastModified(contents) ==
    IF contents = <<>> THEN <<>>
    ELSE InsertDescending(SortedByLastModified(SubSeq(contents, 1, Len(contents) - 1)),
                          contents[Len(contents)])

\* What a call produces: whether an exception left the function, the list
\* returned, and the st.error messages shown.
HistoryPropagated(err) ==
    [raised |-> TRUE, history |-> <<>>, errors |-> <<>>]

\* except Exception as e: st.error(...); then return []
HistoryCaught(err) ==
    [raised |-> FALSE, history |-> <<>>, errors |-> <<FETCH_HISTORY_FAILED \o err>>]

HistoryReturned(history) ==
    [raised |-> FALSE, history |-> history, errors |-> <<>>]

get_s3_analysis_history(env) ==
    IF ~HasCredential(env.getenv_key, env)
    THEN HistoryCaught(SecretNotFoundError)
    ELSE IF ~HasCredential(env.getenv_secret, env)
    THEN HistoryCaught(SecretNotFoundError)
    ELSE IF ~env.client_ok
    THEN HistoryCaught(UnknownServiceError)
    ELSE IF ~env.list_ok
    THEN HistoryCaught(ClientError)
    ELSE IF env.has_contents         \* if 'Contents' in response
    THEN HistoryReturned(SortedByLastModified(env.contents))
    ELSE HistoryReturned(<<>>)

(***************************************************************************)
(* The listings of the store: list_objects_v2 returns the keys under the   *)
(* prefix in ascending order of the key, each once, and leaves 'Contents'  *)
(* out when there is none.                                                 *)
(***************************************************************************)
KeyNames ==
    << "scraped-data/a.json", "scraped-data/b.json", "scraped-data/c.json",
       "scraped-data/d.json", "scraped-data/e.json", "scraped-data/f.json" >>

\* The entries of the keys numbered in `which`, in key order, with the times
\* given by `times`.
Listing(which, times) ==
    LET RECURSIVE From(_)
        From(i) ==
            IF i > MaxEntries THEN <<>>
            ELSE (IF i \in which
                  THEN <<[Key |-> KeyNames[i], LastModified |-> times[i]]>>
                  ELSE <<>>) \o From(i + 1)
    IN  From(1)

Listings ==
    { Listing(which, times) :
        which \in SUBSET (1..MaxEntries), times \in [1..MaxEntries -> 1..MaxTime] }

StoreEnvs ==
    { [getenv_key |-> TRUE, getenv_secret |-> TRUE, secrets |-> FALSE,
       client_ok |-> TRUE, list_ok |-> TRUE,
       has_contents |-> (l # <<>>), contents |-> l] : l \in Listings }
    \cup { [getenv_key |-> k, getenv_secret |-> s, secrets |-> f, client_ok |-> c,
            list_ok |-> o, has_contents |-> TRUE,
            contents |-> Listing({1, 2}, [i \in 1..MaxEntries |-> i])] :
            k \in BOOLEAN, s \in BOOLEAN, f \in BOOLEAN, c \in BOOLEAN, o \in BOOLEAN }

InitHistory ==
    /\ pc = "history_ready"
    /\ store_in \in StoreEnvs
    /\ store_out = Idle
    /\ fetch_in = Idle /\ fetch_out = Idle
    /\ ui = Idle
    /\ raw_url = Idle /\ url = Idle /\ prev_url = Idle
    /\ agent_in = Idle /\ agent_out = Idle

\* history = get_s3_analysis_history()
ListHistory ==
    /\ pc = "history_ready"
    /\ store_out' = get_s3_analysis_history(store_in)
    /\ pc' = "history_listed"
    /\ UNCHANGED <<store_in, fetch_in, fetch_out, urlVars, agentVars, uiVars>>

NextHistory == ListHistory

SpecHistory == InitHistory /\ [][NextHistory]_vars

(***************************************************************************)
(* Claims about get_s3_analysis_history.                                   *)
(***************************************************************************)
\* The number of places of the sequence that hold e.
Count(seq, e) == Cardinality({i \in 1..Len(seq) : seq[i] = e})

\* The listing call is reached and succeeds.
ListSucceeds(env) ==
    /\ env.getenv_key \/ env.secrets
    /\ env.getenv_secret \/ env.secrets
    /\ env.client_ok
    /\ env.list_ok

\* C8: the entries the store returns come back as a permutation of
\* themselves (none dropped, none duplicated) in which every entry is at
\* least as recent as the one after it.
C8_SortedPermutation ==
    (pc = "history_listed" /\ ListSucceeds(store_in) /\ store_in.has_contents)
    => /\ Len(store_out.history) = Len(store_in.contents)
       /\ \A i \in 1..Len(store_in.contents) :
            Count(store_out.history, store_in.contents[i])
                = Count(store_in.contents, store_in.contents[i])
       /\ \A i \in 1..(Len(store_out.history) - 1) :
            store_out.history[i].LastModified >= store_out.history[i + 1].LastModified

\* C8 witness: three entries that came oldest first, two of them of one
\* time, were returned in another order.
C8_Witness ==
    /\ pc = "history_listed"
    /\ Len(store_in.contents) = 3
    /\ store_in.contents[1].LastModified < store_in.contents[2].LastModified
    /\ store_in.contents[2].LastModified = store_in.contents[3].LastModified
    /\ Len(store_out.history) = 3
    /\ store_out.history # store_in.contents

\* C9: get_s3_analysis_history never raises; when credentials are missing,
\* the store cannot be reached, the listing fails or the prefix has no
\* entries it returns the empty sequence, and a failure is shown to the user
\* as an error message.
C9_FailureIsEmptyHistory ==
    pc = "history_listed" =>
        /\ ~store_out.raised
        /\ (~ListSucceeds(store_in) \/ ~store_in.has_contents)
                => store_out.history = <<>>
        /\ ~ListSucceeds(store_in) <=> store_out.errors # <<>>
        /\ \A i \in 1..Len(store_out.errors) :
                StartsWith(store_out.errors[i], FETCH_HISTORY_FAILED)

\* C9 witness: the listing call failed on a store that holds entries, and
\* the empty history came back with one error message.
C9_Witness ==
    /\ pc = "history_listed"
    /\ store_in.getenv_key /\ store_in.getenv_secret /\ store_in.client_ok
    /\ ~store_in.list_ok
    /\ store_in.contents # <<>>
    /\ store_out.history = <<>>
    /\ Len(store_out.errors) = 1

(***************************************************************************)
(* More of Python on the values of json.loads, as the presenter uses it:   *)
(* [ok, v, err] as above, with v a value, a truth value or a number.       *)
(***************************************************************************)
\* bool(v)
Truthy(v) ==
    CASE v.t = "str" -> v.s # <<>>
      [] v.t = "int" -> v.n # 0
      [] v.t = "bool" -> v.n = 1
      [] v.t = "NoneType" -> FALSE
      [] OTHER -> v.vals # <<>>

\* d.get(key, default), for a dict d
DictGet(d, key, default) == IF HasKey(d, key) THEN Lookup(d, key) ELSE default

\* v > 0
GreaterThanZero(v) ==
    IF v.t \in {"int", "bool"} THEN Value(JBool(v.n > 0))
    ELSE Raise(T(<<"'", ">", "'", " ", "n", "o", "t", " ", "s", "u", "p", "p", "o",
        "r", "t", "e", "d", " ", "b", "e", "t", "w", "e", "e", "n", " ", "i",
        "n", "s", "t", "a", "n", "c", "e", "s", " ", "o", "f", " ", "'">>) \o TypeName(v.t)
                \o T(<<"'", " ", "a", "n", "d", " ", "'", "i", "n", "t", "'">>))

\* len(v)
LenOf(v) ==
    CASE v.t = "str" -> Value(JInt(Len(v.s)))
      [] v.t \in {"list", "dict"} -> Value(JInt(Len(v.vals)))
      [] OTHER -> Raise(T(<<"o", "b", "j", "e", "c", "t", " ", "o", "f", " ", "t", "y", "p",
        "e", " ", "'">>) \o TypeName(v.t) \o T(<<"'", " ", "h", "a", "s", " ", "n", "o", " ", "l", "e", "n", "(",
        ")">>))

\* v[:10]
SliceTen(v) ==
    CASE v.t = "str" -> Value(JStr(SubSeq(v.s, 1, IF Len(v.s) < 10 THEN Len(v.s) ELSE 10)))
      [] v.t = "list" ->
            Value(JList(SubSeq(v.vals, 1, IF Len(v.vals) < 10 THEN Len(v.vals) ELSE 10)))
      [] v.t = "dict" -> Raise(T(<<"u", "n", "h", "a", "s", "h", "a", "b", "l", "e", " ", "t", "y",
        "p", "e", ":", " ", "'", "s", "l", "i", "c", "e", "'">>))
      [] OTHER -> Raise(APOSTROPHE \o TypeName(v.t) \o T(<<"'", " ", "o", "b", "j", "e", "c", "t", " ", "i", "s", " ", "n",
        "o", "t", " ", "s", "u", "b", "s", "c", "r", "i", "p", "t", "a", "b",
        "l", "e">>))

\* The items a for loop over v visits: [ok, v (a list), err].
Iterate(v) ==
    CASE v.t = "list" -> Value(v)
      [] v.t = "dict" -> Value(JList([i \in 1..Len(v.keys) |-> JStr(v.keys[i])]))
      [] v.t = "str" -> Value(JList([i \in 1..Len(v.s) |-> JStr(<<v.s[i]>>)]))
      [] OTHER -> Raise(APOSTROPHE \o TypeName(v.t) \o T(<<"'", " ", "o", "b", "j", "e", "c", "t", " ", "i", "s", " ", "n",
        "o", "t", " ", "i", "t", "e", "r", "a", "b", "l", "e">>))

\* v[k] for an int k >= 0
GetIndex(v, k) ==
    CASE v.t = "list" ->
            IF k < Len(v.vals) THEN Value(v.vals[k + 1])
            ELSE Raise(T(<<"l", "i", "s", "t", " ", "i", "n", "d", "e", "x", " ", "o", "u",
        "t", " ", "o", "f", " ", "r", "a", "n", "g", "e">>))
      [] v.t = "str" ->
            IF k < Len(v.s) THEN Value(JStr(<<v.s[k + 1]>>))
            ELSE Raise(T(<<"s", "t", "r", "i", "n", "g", " ", "i", "n", "d", "e", "x", " ",
        "o", "u", "t", " ", "o", "f", " ", "r", "a", "n", "g", "e">>))
      [] v.t = "dict" -> Raise(IntText(k))      \* KeyError(k)
      [] OTHER -> Raise(APOSTROPHE \o TypeName(v.t) \o T(<<"'", " ", "o", "b", "j", "e", "c", "t", " ", "i", "s", " ", "n",
        "o", "t", " ", "s", "u", "b", "s", "c", "r", "i", "p", "t", "a", "b",
        "l", "e">>))

\* int(v)
IntOf(v) ==
    CASE v.t \in {"int", "bool"} -> Value(JInt(v.n))
      [] v.t = "str" ->
            IF v.s # <<>> /\ \A i \in 1..Len(v.s) : v.s[i] \in Digits
            THEN Value(ScanDigits(v.s, 1, 0).v)
            ELSE Raise(T(<<"i", "n", "v", "a", "l", "i", "d", " ", "l", "i", "t", "e", "r",
        "a", "l", " ", "f", "o", "r", " ", "i", "n", "t", "(", ")", " ", "w",
        "i", "t", "h", " ", "b", "a", "s", "e", " ", "1", "0", ":", " ",
        "'">>) \o v.s \o APOSTROPHE)
      [] OTHER ->
            Raise(T(<<"i", "n", "t", "(", ")", " ", "a", "r", "g", "u", "m", "e", "n",
        "t", " ", "m", "u", "s", "t", " ", "b", "e", " ", "a", " ", "s", "t",
        "r", "i", "n", "g", ",", " ", "a", " ", "b", "y", "t", "e", "s", "-",
        "l", "i", "k", "e", " ", "o", "b", "j", "e", "c", "t", " ", "o", "r",
        " ", "a", " ", "r", "e", "a", "l", " ", "n", "u", "m", "b", "e", "r",
        ",", " ", "n", "o", "t", " ", "'">>)
                    \o TypeName(v.t) \o APOSTROPHE)

\* 'text' + v
ConcatStr(v) ==
    IF v.t = "str" THEN Value(v)
    ELSE Raise(T(<<"c", "a", "n", " ", "o", "n", "l", "y", " ", "c", "o", "n", "c",
        "a", "t", "e", "n", "a", "t", "e", " ", "s", "t", "r", " ", "(", "n",
        "o", "t", " ", "\"">>) \o TypeName(v.t) \o T(<<"\"", ")", " ", "t", "o", " ", "s", "t", "r">>))

(***************************************************************************)
(* display_analysis_results and the two functions it calls. Each gives     *)
(* [ok, shown, err]: the widgets drawn, in order, and the exception that   *)
(* ended the drawing when not ok.                                          *)
(***************************************************************************)
KEY_metadata == T(<<"m", "e", "t", "a", "d", "a", "t", "a">>)
KEY_image_count == T(<<"i", "m", "a", "g", "e", "_", "c", "o", "u", "n", "t">>)
KEY_paragraph_count == T(<<"p", "a", "r", "a", "g", "r", "a", "p", "h", "_", "c", "o", "u",
        "n", "t">>)
KEY_headers == T(<<"h", "e", "a", "d", "e", "r", "s">>)
KEY_timestamp == T(<<"t", "i", "m", "e", "s", "t", "a", "m", "p">>)
KEY_url == T(<<"u", "r", "l">>)
KEY_title == T(<<"t", "i", "t", "l", "e">>)
KEY_media == T(<<"m", "e", "d", "i", "a">>)
KEY_alt == T(<<"a", "l", "t">>)
KEY_structured_content == T(<<"s", "t", "r", "u", "c", "t", "u", "r", "e", "d", "_", "c", "o",
        "n", "t", "e", "n", "t">>)
KEY_type == T(<<"t", "y", "p", "e">>)
KEY_level == T(<<"l", "e", "v", "e", "l">>)
KEY_text == T(<<"t", "e", "x", "t">>)
KEY_items == T(<<"i", "t", "e", "m", "s">>)
TYPE_header == T(<<"h", "e", "a", "d", "e", "r">>)
TYPE_paragraph == T(<<"p", "a", "r", "a", "g", "r", "a", "p", "h">>)
TYPE_list == T(<<"l", "i", "s", "t">>)
NOT_AVAILABLE == T(<<"N", "/", "A">>)

Shown(widgets) == [ok |-> TRUE, shown |-> widgets, err |-> <<>>]
Failed(widgets, err) == [ok |-> FALSE, shown |-> widgets, err |-> err]

\* One cell of the media grid: the try block around st.image and its handler,
\* which reads media_items[k]['url'] once more.
MediaCell(media_items, k) ==
    LET item == GetIndex(media_items, k)
        item_url == GetItem(item.v, KEY_url)
        item_alt == GetItem(item.v, KEY_alt)
    IN  IF ~item.ok THEN Failed(<<>>, item.err)
        ELSE IF ~item_url.ok THEN Failed(<<>>, item_url.err)
        ELSE IF ~item_alt.ok \/ item_url.v.t # "str" THEN Shown(<<"warning">>)
        ELSE Shown(<<"image">>)

RECURSIVE MediaCells(_, _, _, _)
MediaCells(media_items, k, n, shown) ==
    IF k >= n THEN Shown(shown)
    ELSE LET cell == MediaCell(media_items, k)
         IN  IF ~cell.ok THEN Failed(shown, cell.err)
             ELSE MediaCells(media_items, k + 1, n, shown \o cell.shown)

display_media_section(media_items) ==
    IF ~Truthy(media_items) THEN Shown(<<"write:No media found">>)
    ELSE LET n == LenOf(media_items)
         IN  IF ~n.ok THEN Failed(<<>>, n.err)
             ELSE MediaCells(media_items, 0, n.v.n, <<"subheader:Media">>)

\* The body of the loop of display_structured_content for one item.
ContentBlock(item) ==
    LET type == GetItem(item, KEY_type)
        level == GetItem(item, KEY_level)
        digit == GetIndex(level.v, 1)
        number == IntOf(digit.v)
        text == GetItem(item, KEY_text)
        header_text == ConcatStr(text.v)
        items == GetItem(item, KEY_items)
        list_items == Iterate(items.v)
    IN  IF ~type.ok THEN Failed(<<>>, type.err)
        ELSE IF type.v = JStr(TYPE_header)
        THEN IF ~level.ok THEN Failed(<<>>, level.err)
             ELSE IF ~digit.ok THEN Failed(<<>>, digit.err)
             ELSE IF ~number.ok THEN Failed(<<>>, number.err)
             ELSE IF ~text.ok THEN Failed(<<>>, text.err)
             ELSE IF ~header_text.ok THEN Failed(<<>>, header_text.err)
             ELSE Shown(<<"markdown:header">>)
        ELSE IF type.v = JStr(TYPE_paragraph)
        THEN IF ~text.ok THEN Failed(<<>>, text.err)
             ELSE Shown(<<"write:paragraph">>)
        ELSE IF type.v = JStr(TYPE_list)
        THEN IF ~items.ok THEN Failed(<<>>, items.err)
             ELSE IF ~list_items.ok THEN Failed(<<>>, list_items.err)
             ELSE Shown([i \in 1..Len(list_items.v.vals) |-> "markdown:item"])
        ELSE Shown(<<>>)

RECURSIVE ContentBlocks(_, _)
ContentBlocks(items, shown) ==
    IF items = <<>> THEN Shown(shown)
    ELSE LET block == ContentBlock(Head(items))
         IN  IF ~block.ok THEN Failed(shown \o block.shown, block.err)
             ELSE ContentBlocks(Tail(items), shown \o block.shown)

display_structured_content(content) ==
    LET items == Iterate(content)
    IN  IF ~items.ok THEN Failed(<<>>, items.err)
        ELSE ContentBlocks(items.v.vals, <<>>)

display_analysis_results(data) ==
    LET metadata == GetItem(data, KEY_metadata)
        image_count == GetItem(metadata.v, KEY_image_count)
        delta == GreaterThanZero(image_count.v)
        paragraph_count == GetItem(metadata.v, KEY_paragraph_count)
        headers == GetItem(metadata.v, KEY_headers)
        n_headers == LenOf(headers.v)
        date == SliceTen(DictGet(data, KEY_timestamp, JStr(NOT_AVAILABLE)))
        data_url == GetItem(data, KEY_url)
        title == GetItem(data, KEY_title)
        has_media == Truthy(DictGet(data, KEY_media, None))
        media == IF has_media
                 THEN display_media_section(Lookup(data, KEY_media))
                 ELSE Shown(<<>>)
        content == display_structured_content(
                        DictGet(data, KEY_structured_content, JList(<<>>)))
        s1 == <<"header:Analysis Results">>
        s2 == s1 \o <<"metric:Images">>
        s3 == s2 \o <<"metric:Paragraphs">>
        s4 == s3 \o <<"metric:Headers">>
        s5 == s4 \o <<"metric:Analysis Date">>
        s6 == s5 \o <<"markdown:URL and Title">>
        s7 == s6 \o media.shown \o (IF has_media THEN <<"download_button">> ELSE <<>>)
    IN  IF ~metadata.ok THEN Failed(s1, metadata.err)
        ELSE IF ~image_count.ok THEN Failed(s1, image_count.err)
        ELSE IF ~delta.ok THEN Failed(s1, delta.err)
        ELSE IF ~paragraph_count.ok THEN Failed(s2, paragraph_count.err)
        ELSE IF ~headers.ok THEN Failed(s3, headers.err)
        ELSE IF ~n_headers.ok THEN Failed(s3, n_headers.err)
        ELSE IF ~date.ok THEN Failed(s4, date.err)
        ELSE IF ~data_url.ok THEN Failed(s5, data_url.err)
        ELSE IF ~title.ok THEN Failed(s5, title.err)
        ELSE IF ~media.ok THEN Failed(s6 \o media.shown, media.err)
        ELSE IF ~content.ok THEN Failed(s7 \o content.shown, content.err)
        ELSE Shown(s7 \o content.shown)

(***************************************************************************)
(* Loading the selected analysis: the try block of the History tab.        *)
(***************************************************************************)
NoSuchKey ==
    T(<<"A", "n", " ", "e", "r", "r", "o", "r", " ", "o", "c", "c", "u",
        "r", "r", "e", "d", " ", "(", "N", "o", "S", "u", "c", "h", "K", "e",
        "y", ")", " ", "w", "h", "e", "n", " ", "c", "a", "l", "l", "i", "n",
        "g", " ", "t", "h", "e", " ", "G", "e", "t", "O", "b", "j", "e", "c",
        "t", " ", "o", "p", "e", "r", "a", "t", "i", "o", "n">>)
JSONDecodeError == T(<<"E", "x", "p", "e", "c", "t", "i", "n", "g", " ", "v", "a", "l",
        "u", "e", ":", " ", "l", "i", "n", "e", " ", "1", " ", "c", "o", "l",
        "u", "m", "n", " ", "1", " ", "(", "c", "h", "a", "r", " ", "0",
        ")">>)
ERROR_LOADING == T(<<"E", "r", "r", "o", "r", " ", "l", "o", "a", "d", "i", "n", "g",
        " ", "a", "n", "a", "l", "y", "s", "i", "s", ":", " ">>)

\* What the block produces: the get_object calls made, whether
\* display_analysis_results was called and with what, the widgets it drew,
\* and the st.error messages shown.
NotLoaded(calls, err) ==
    [get_object_calls |-> calls, presented |-> FALSE, data |-> None,
     shown |-> <<>>, errors |-> <<ERROR_LOADING \o err>>]

\* display_analysis_results(analysis_data) having drawn what `drawn` says
PresentedAs(data, drawn) ==
    [get_object_calls |-> 1, presented |-> TRUE, data |-> data,
     shown |-> drawn.shown,
     errors |-> IF drawn.ok THEN <<>> ELSE <<ERROR_LOADING \o drawn.err>>]

Presented(data) == PresentedAs(data, display_analysis_results(data))

LoadSelected(env) ==
    IF ~HasCredential(env.getenv_key, env)
    THEN NotLoaded(0, SecretNotFoundError)
    ELSE IF ~HasCredential(env.getenv_secret, env)
    THEN NotLoaded(0, SecretNotFoundError)
    ELSE IF ~env.client_ok
    THEN NotLoaded(0, UnknownServiceError)
    ELSE IF ~env.key_exists               \* s3.get_object
    THEN NotLoaded(1, NoSuchKey)
    ELSE LET decoded == Utf8Decode(env.body)
             parsed == Loads(decoded.text)
         IN  IF ~decoded.ok THEN NotLoaded(1, UnicodeDecodeError)
             ELSE IF ~parsed.ok THEN NotLoaded(1, JSONDecodeError)
             ELSE Presented(parsed.v)

(***************************************************************************)
(* The objects of the store: an analysis as the producer writes it, and    *)
(* the same with up to MaxDeviations of its fields left out or replaced.   *)
(***************************************************************************)
ArtifactFields ==
    <<KEY_url, KEY_title, KEY_timestamp, KEY_metadata, KEY_media,
      KEY_structured_content>>

Metadata(image_count, paragraph_count, headers) ==
    JDict(<<KEY_image_count, KEY_paragraph_count, KEY_headers>>,
          <<image_count, paragraph_count, headers>>)

Block(type) == JDict(<<KEY_type>>, <<JStr(type)>>)
HeaderBlock(level, text) ==
    JDict(<<KEY_type, KEY_level, KEY_text>>, <<JStr(TYPE_header), level, text>>)

\* For each field, the value an analysis has (the first) and others.
FieldValues ==
    << <<JStr(T(<<"h", "t", "t", "p", "s", ":", "/", "/", "a", ".", "b">>))>>,
       <<JStr(T(<<"A">>))>>,
       <<JStr(T(<<"2", "0", "2", "4", "-", "0", "1", "-", "0", "1", "T", "0", "0",
        ":", "0", "0", ":", "0", "0">>)), JInt(0), None>>,
       <<Metadata(JInt(1), JInt(2), JList(<<JStr(T(<<"h">>))>>)),
         JDict(<<>>, <<>>),
         JDict(<<KEY_image_count, KEY_paragraph_count>>, <<JInt(1), JInt(2)>>),
         Metadata(JStr(T(<<"3">>)), JInt(2), JList(<<>>)),
         Metadata(JInt(0), JInt(2), JInt(1)),
         None>>,
       <<JList(<<JDict(<<KEY_url, KEY_alt>>, <<JStr(T(<<"i">>)), JStr(<<>>)>>)>>),
         JList(<<>>),
         JList(<<JDict(<<KEY_alt>>, <<JStr(T(<<"a">>))>>)>>),
         JList(<<JDict(<<KEY_url>>, <<JStr(T(<<"i">>))>>)>>),
         JInt(5),
         JStr(T(<<"x">>))>>,
       <<JList(<<HeaderBlock(JStr(T(<<"h", "2">>)), JStr(T(<<"x">>))),
                 JDict(<<KEY_type, KEY_text>>, <<JStr(TYPE_paragraph), JStr(T(<<"p">>))>>),
                 JDict(<<KEY_type, KEY_items>>,
                       <<JStr(TYPE_list), JList(<<JStr(T(<<"a">>)), JStr(T(<<"b">>))>>)>>),
                 Block(T(<<"q", "u", "o", "t", "e">>))>>),
         None,
         JList(<<Block(TYPE_header)>>),
         JList(<<HeaderBlock(JStr(T(<<"h">>)), JStr(T(<<"x">>)))>>),
         JList(<<HeaderBlock(JStr(T(<<"h", "x">>)), JStr(T(<<"x">>)))>>),
         JList(<<HeaderBlock(JStr(T(<<"h", "2">>)), JInt(1))>>),
         JList(<<JInt(1)>>),
         JList(<<JDict(<<KEY_type, KEY_items>>, <<JStr(TYPE_list), None>>)>>)>> >>

\* The dict with, for each field, the value numbered choice[i] (0: left out).
Artifact(choice) ==
    LET RECURSIVE From(_)
        From(i) ==
            IF i > Len(ArtifactFields) THEN JDict(<<>>, <<>>)
            ELSE LET rest == From(i + 1)
                 IN  IF choice[i] = 0 THEN rest
                     ELSE JDict(<<ArtifactFields[i]>> \o rest.keys,
                                <<FieldValues[i][choice[i]]>> \o rest.vals)
    IN  From(1)

WellFormedArtifact == Artifact([i \in 1..Len(ArtifactFields) |-> 1])

ArtifactChoices ==
    { choice \in [1..Len(ArtifactFields) -> 0..8] :
        /\ \A i \in 1..Len(ArtifactFields) : choice[i] <= Len(FieldValues[i])
        /\ Cardinality({i \in 1..Len(ArtifactFields) : choice[i] # 1}) <= MaxDeviations }

ObjectBodies ==
    { Utf8Encode(Dumps(Artifact(choice), FALSE)) : choice \in ArtifactChoices }
    \cup { Utf8Encode(Dumps(WellFormedArtifact, TRUE)) }
    \cup { Utf8Encode(Dumps(v, FALSE)) :
            v \in {JList(<<>>), JList(<<WellFormedArtifact>>), JStr(T(<<"x">>)), JInt(1), None} }
    \cup { Utf8Encode(T(<<"n", "o", "t", " ", "j", "s", "o", "n">>)), <<>>, <<255>>,
           Utf8Encode(<<QUOTE, 233, QUOTE>>), <<QUOTE, 195, QUOTE>> }

FetchEnvs ==
    { [key |-> KeyNames[1], getenv_key |-> TRUE, getenv_secret |-> TRUE,
       secrets |-> FALSE, client_ok |-> TRUE, key_exists |-> TRUE, body |-> b] :
        b \in ObjectBodies }
    \cup { [key |-> KeyNames[1], getenv_key |-> k, getenv_secret |-> s,
            secrets |-> f, client_ok |-> c, key_exists |-> e,
            body |-> Utf8Encode(Dumps(WellFormedArtifact, FALSE))] :
            k \in BOOLEAN, s \in BOOLEAN, f \in BOOLEAN, c \in BOOLEAN, e \in BOOLEAN }

InitFetch ==
    /\ pc = "fetch_ready"
    /\ fetch_in \in FetchEnvs
    /\ fetch_out = Idle
    /\ ui = Idle
    /\ store_in = Idle /\ store_out = Idle
    /\ raw_url = Idle /\ url = Idle /\ prev_url = Idle
    /\ agent_in = Idle /\ agent_out = Idle

\* if selected_analysis: try: ... display_analysis_results(analysis_data)
\* except Exception as e: st.error(...)
FetchSelected ==
    /\ pc = "fetch_ready"
    /\ fetch_out' = LoadSelected(fetch_in)
    /\ pc' = "fetch_done"
    /\ UNCHANGED <<fetch_in, store_in, store_out, urlVars, agentVars, uiVars>>

NextFetch == FetchSelected

SpecFetch == InitFetch /\ [][NextFetch]_vars

(***************************************************************************)
(* Claim about the fetch of the selected analysis.                         *)
(***************************************************************************)
IsText(v) == v.t = "str"
IsCount(v) == v.t = "int"
IsListOf(v, Member(_)) ==
    v.t = "list" /\ \A i \in 1..Len(v.vals) : Member(v.vals[i])
HasField(v, key, Is(_)) == HasKey(v, key) /\ Is(Lookup(v, key))

IsMetadata(v) ==
    /\ v.t = "dict"
    /\ HasField(v, KEY_image_count, IsCount)
    /\ HasField(v, KEY_paragraph_count, IsCount)
    /\ HasKey(v, KEY_headers) /\ IsListOf(Lookup(v, KEY_headers), IsText)

IsMediaItem(v) ==
    v.t = "dict" /\ HasField(v, KEY_url, IsText) /\ HasField(v, KEY_alt, IsText)

IsLevel(v) == v.t = "str" /\ Len(v.s) >= 2 /\ v.s[2] \in Digits

IsTextList(v) == IsListOf(v, IsText)

IsContentBlock(v) ==
    /\ v.t = "dict"
    /\ HasField(v, KEY_type, IsText)
    /\ Lookup(v, KEY_type).s = TYPE_header
            => HasField(v, KEY_level, IsLevel) /\ HasField(v, KEY_text, IsText)
    /\ Lookup(v, KEY_type).s = TYPE_paragraph => HasField(v, KEY_text, IsText)
    /\ Lookup(v, KEY_type).s = TYPE_list => HasField(v, KEY_items, IsTextList)

\* The Artifact schema of the specification, in the field names the stored
\* objects use.
IsArtifact(v) ==
    /\ v.t = "dict"
    /\ HasField(v, KEY_url, IsText)
    /\ HasField(v, KEY_title, IsText)
    /\ HasField(v, KEY_metadata, IsMetadata)
    /\ HasKey(v, KEY_media) /\ IsListOf(Lookup(v, KEY_media), IsMediaItem)
    /\ HasKey(v, KEY_structured_content)
    /\ IsListOf(Lookup(v, KEY_structured_content), IsContentBlock)

ParsesAsArtifact(body) ==
    /\ Utf8Decode(body).ok
    /\ Loads(Utf8Decode(body).text).ok
    /\ IsArtifact(Loads(Utf8Decode(body).text).v)

\* C7: when the selected key does not exist, or its body is not UTF-8, or
\* the body does not parse as an Artifact, the fetch shows exactly one
\* error, calls get_object at most once, and hands nothing to
\* display_analysis_results, so that nothing of an analysis is drawn.
C7_FailedFetchPresentsNothing ==
    (/\ pc = "fetch_done"
     /\ ~fetch_in.key_exists \/ ~ParsesAsArtifact(fetch_in.body))
    => /\ Len(fetch_out.errors) = 1
       /\ fetch_out.get_object_calls <= 1
       /\ ~fetch_out.presented
       /\ fetch_out.shown = <<>>

\* The part of C7 the code keeps: a fetch calls get_object at most once and
\* shows at most one error; a missing key, a body that is not UTF-8 and a
\* body that is not JSON give exactly one error and no call of the presenter.
C7_MissingOrUnreadableIsOneError ==
    pc = "fetch_done"
    => /\ Len(fetch_out.errors) <= 1
       /\ fetch_out.get_object_calls <= 1
       /\ (\/ ~fetch_in.key_exists
           \/ ~Utf8Decode(fetch_in.body).ok
           \/ ~Loads(Utf8Decode(fetch_in.body).text).ok)
          => /\ Len(fetch_out.errors) = 1
             /\ ~fetch_out.presented
             /\ fetch_out.shown = <<>>

\* A body that is JSON but no Artifact is drawn in part before the error.
C7_PartiallyDrawn ==
    /\ pc = "fetch_done"
    /\ fetch_in.key_exists
    /\ ~ParsesAsArtifact(fetch_in.body)
    /\ fetch_out.presented
    /\ Len(fetch_out.shown) > 1
    /\ Len(fetch_out.errors) = 1

\* A body that is JSON but no Artifact is drawn with no error at all.
C7_DrawnWithoutError ==
    /\ pc = "fetch_done"
    /\ fetch_in.key_exists
    /\ ~ParsesAsArtifact(fetch_in.body)
    /\ fetch_out.presented
    /\ fetch_out.errors = <<>>

(***************************************************************************)
(* main: one run of the script. Streamlit runs main from the top for the   *)
(* first page load, for every widget the user acts on, and after           *)
(* st.rerun(); the values the widgets return are the inputs of the run.    *)
(* A run is modelled by the calls it makes of the remote operations        *)
(* (invoke_agent, requests.get, list_objects_v2, get_object), the st.error *)
(* messages it shows, and what it does to st.session_state.messages.       *)
(***************************************************************************)
NEWLINE == <<10>>
COLON_SPACE == T(<<":", " ">>)
ACCESS_LINE == T(<<"A", "c", "c", "e", "s", "s", " ", "f", "u", "l", "l", " ", "a",
        "n", "a", "l", "y", "s", "i", "s", " ", "a", "t", ":">>)
IndexError == T(<<"l", "i", "s", "t", " ", "i", "n", "d", "e", "x", " ", "o", "u",
        "t", " ", "o", "f", " ", "r", "a", "n", "g", "e">>)

INVOKE_AGENT == "agent.invoke_agent"
REQUESTS_GET == "http.get"
LIST_OBJECTS == "s3.list_objects_v2"
GET_OBJECT == "s3.get_object"

\* Where a tab leaves the run: it goes on, it ends in st.rerun(), or an
\* exception nothing catches ends it.
Continue == "continue"
Rerun == "rerun"
Crash == "crash"

\* What the functions main calls give during one run. The credentials are
\* found and the clients are built in all of them.
Replies ==
    { T(<<"D", "o", "n", "e", ".", "\n", "A", "c", "c", "e", "s", "s", " ",
        "f", "u", "l", "l", " ", "a", "n", "a", "l", "y", "s", "i", "s", " ",
        "a", "t", ":", " ", "h", "t", "t", "p", "s", ":", "/", "/", "s", "3",
        "/", "x", "?", "s", "i", "g", "=", "1">>),
      T(<<"A", "c", "c", "e", "s", "s", " ", "f", "u", "l", "l", " ", "a",
        "n", "a", "l", "y", "s", "i", "s", " ", "a", "t", ":">>) }

ENVELOPE_OF_ONE == T(<<"{", "\"", "r", "e", "s", "p", "o", "n", "s", "e", "\"", ":", "{",
        "\"", "f", "u", "n", "c", "t", "i", "o", "n", "R", "e", "s", "p", "o",
        "n", "s", "e", "\"", ":", "{", "\"", "r", "e", "s", "p", "o", "n", "s",
        "e", "B", "o", "d", "y", "\"", ":", "{", "\"", "T", "E", "X", "T",
        "\"", ":", "{", "\"", "b", "o", "d", "y", "\"", ":", "1", "}", "}",
        "}", "}", "}">>)
NOT_SUBSCRIPTABLE == T(<<"'", "i", "n", "t", "'", " ", "o", "b", "j", "e", "c", "t", " ",
        "i", "s", " ", "n", "o", "t", " ", "s", "u", "b", "s", "c", "r", "i",
        "p", "t", "a", "b", "l", "e">>)
ConnectionError == T(<<"F", "a", "i", "l", "e", "d", " ", "t", "o", " ", "e", "s", "t",
        "a", "b", "l", "i", "s", "h", " ", "a", " ", "n", "e", "w", " ", "c",
        "o", "n", "n", "e", "c", "t", "i", "o", "n">>)

\* call_bedrock_agent: the agent streams the plain text of a reply, or an
\* envelope whose body is the number 1, or the stream breaks.
UiAgentResults ==
    { Returned(JStr(m), m) : m \in Replies }
    \cup { Returned(JInt(1), ENVELOPE_OF_ONE), Caught("stream", EventStreamError, <<>>) }

\* display_analysis_results: of a well-formed analysis, and of the number 1.
DrawnWellFormed ==
    Shown(<<"header:Analysis Results", "metric:Images", "metric:Paragraphs",
            "metric:Headers", "metric:Analysis Date", "markdown:URL and Title",
            "subheader:Media", "image", "download_button", "markdown:header",
            "write:paragraph", "markdown:item", "markdown:item">>)
DrawnOne == Failed(<<"header:Analysis Results">>, NOT_SUBSCRIPTABLE)

\* requests.get(presigned_url).json() and display_analysis_results of it
UiHttp ==
    { [ok |-> FALSE, drawn |-> Failed(<<>>, ConnectionError)],
      [ok |-> TRUE, drawn |-> DrawnWellFormed],
      [ok |-> TRUE, drawn |-> DrawnOne] }

UiStoreEnvs ==
    { [getenv_key |-> TRUE, getenv_secret |-> TRUE, secrets |-> FALSE,
       client_ok |-> TRUE, list_ok |-> o,
       has_contents |-> (l # <<>>), contents |-> l] :
        o \in BOOLEAN, l \in { <<>>, Listing({1, 2}, [i \in 1..MaxEntries |-> i]) } }

\* The try block that loads the selected analysis: the key is gone, the
\* object is a well-formed analysis, the object is the number 1.
UiLoaded ==
    { NotLoaded(1, NoSuchKey),
      PresentedAs(WellFormedArtifact, DrawnWellFormed),
      PresentedAs(JInt(1), DrawnOne) }

UiEnvs ==
    { [agent |-> a, http |-> h, store |-> s, loaded |-> l] :
        a \in UiAgentResults, h \in UiHttp, s \in UiStoreEnvs, l \in UiLoaded }

\* The environments in which the functions give these results.
UiAgentEnvs ==
    { Healthy(<<ChunkEvent(Utf8Encode(m))>>) : m \in Replies }
    \cup { Healthy(<<ChunkEvent(Utf8Encode(ENVELOPE_OF_ONE))>>),
           [Healthy(<<>>) EXCEPT !.stream_ok = FALSE] }

UiFetchEnvs ==
    { [key |-> KeyNames[1], getenv_key |-> TRUE, getenv_secret |-> TRUE,
       secrets |-> FALSE, client_ok |-> TRUE, key_exists |-> k, body |-> b] :
        k \in BOOLEAN,
        b \in { Utf8Encode(Dumps(WellFormedArtifact, FALSE)), Utf8Encode(Dumps(JInt(1), FALSE)) } }

UiResultsAreResults ==
    /\ UiAgentResults = { call_bedrock_agent(env) : env \in UiAgentEnvs }
    /\ UiLoaded = { LoadSelected(env) : env \in UiFetchEnvs }
    /\ DrawnWellFormed = display_analysis_results(WellFormedArtifact)
    /\ DrawnOne = display_analysis_results(JInt(1))

RECURSIVE SplitOn(_, _)
\* text.split(sep)
SplitOn(text, sep) ==
    LET starts == {i \in 1..(Len(text) - Len(sep) + 1) :
                        SubSeq(text, i, i + Len(sep) - 1) = sep}
    IN  IF starts = {} THEN <<text>>
        ELSE LET i == MinOf(starts)
             IN  <<SubSeq(text, 1, i - 1)>>
                    \o SplitOn(SubSeq(text, i + Len(sep), Len(text)), sep)

RECURSIVE PresignedUrl(_, _)
\* for line in message_lines: if line.startswith("Access full analysis at:"):
\*     presigned_url = line.split(": ")[1].strip()
\* [ok, v]: v the value of presigned_url after the loop; not ok is the
\* IndexError of a line with no ": " in it.
PresignedUrl(message_lines, presigned_url) ==
    IF message_lines = <<>> THEN Value(presigned_url)
    ELSE LET line == Head(message_lines)
             parts == SplitOn(line, COLON_SPACE)
         IN  IF ~StartsWith(line, ACCESS_LINE)
             THEN PresignedUrl(Tail(message_lines), presigned_url)
             ELSE IF Len(parts) < 2 THEN Raise(IndexError)
             ELSE PresignedUrl(Tail(message_lines), JStr(Strip(parts[2])))

\* AskAgent with a failed call made once more.
AskAgentAgain(env) ==
    LET out == env
    IN  [calls |-> IF out.stage \in {"credentials", "client"} THEN <<>>
                   ELSE IF out.response.success THEN <<INVOKE_AGENT>>
                   ELSE <<INVOKE_AGENT, INVOKE_AGENT>>,
         raised |-> out.raised,
         response |-> out.response]

\* response = call_bedrock_agent(...), `env` being what the call gives: the
\* agent is invoked once the credentials are found and the client is built.
AskAgent(env) ==
    LET out == env
    IN  [calls |-> IF out.stage \in {"credentials", "client"} THEN <<>>
                   ELSE <<INVOKE_AGENT>>,
         raised |-> out.raised,
         response |-> out.response]

\* What a tab did: the remote calls, the errors shown, and how it left the
\* run.
TabDone(calls, errors, stop) == [calls |-> calls, errors |-> errors, stop |-> stop]

\* try: analysis_data = requests.get(presigned_url).json()
\*      display_analysis_results(analysis_data)
\* except Exception as e: st.error(...)
LoadPresigned(http) ==
    IF ~http.ok THEN <<"Error loading analysis data">>
    ELSE IF http.drawn.ok THEN <<>>
    ELSE <<"Error loading analysis data">>

\* with tabs[0]: the URL input, the Analyze and Clear buttons.
AnalysisTab(w, env) ==
    LET processed == IF w.raw_url # <<>> THEN preprocess_url(w.raw_url) ELSE <<>>
        asked == AskAgent(env.agent)
        message == asked.response.message
        presigned_url == PresignedUrl(SplitOn(message.s, NEWLINE), None)
    IN  IF w.clear THEN TabDone(<<>>, <<>>, Rerun)
        ELSE IF ~(w.analyze /\ processed # <<>>) THEN TabDone(<<>>, <<>>, Continue)
        ELSE IF asked.raised THEN TabDone(asked.calls, <<>>, Crash)
        ELSE IF ~asked.response.success
        THEN TabDone(asked.calls, <<"Analysis failed">>, Continue)
        ELSE IF message.t # "str"        \* response["message"].split
        THEN TabDone(asked.calls, <<>>, Crash)
        ELSE IF ~presigned_url.ok THEN TabDone(asked.calls, <<>>, Crash)
        ELSE IF Truthy(presigned_url.v)
        THEN TabDone(asked.calls \o <<REQUESTS_GET>>, LoadPresigned(env.http), Continue)
        ELSE TabDone(asked.calls, <<>>, Continue)

\* list_objects_v2 is called once the credentials are found and the client
\* is built.
ListCalls(env) ==
    IF HasCredential(env.getenv_key, env) /\ HasCredential(env.getenv_secret, env)
       /\ env.client_ok
    THEN <<LIST_OBJECTS>> ELSE <<>>

GetCalls(loaded) == IF loaded.get_object_calls = 1 THEN <<GET_OBJECT>> ELSE <<>>

\* with tabs[1]: the listing, the Refresh button, the selectbox and the
\* analysis selected in it.
HistoryTab(w, env) ==
    LET listed == get_s3_analysis_history(env.store)
        history == listed.history
        list_errors == IF listed.errors = <<>> THEN <<>>
                       ELSE <<"Failed to fetch analysis history">>
        options == [i \in 1..Len(history) |-> history[i].Key]
        selected_analysis ==
            options[IF w.selected <= Len(options) THEN w.selected ELSE 1]
        loaded == IF selected_analysis # "" THEN env.loaded       \* the try block
                  ELSE [get_object_calls |-> 0, errors |-> <<>>]
        load_errors == IF loaded.errors = <<>> THEN <<>>
                       ELSE <<"Error loading analysis">>
    IN  IF listed.raised THEN TabDone(ListCalls(env.store), <<>>, Crash)
        ELSE IF w.refresh THEN TabDone(ListCalls(env.store), list_errors, Rerun)
        ELSE IF history = <<>> THEN TabDone(ListCalls(env.store), list_errors, Continue)
        ELSE TabDone(ListCalls(env.store) \o GetCalls(loaded),
                     list_errors \o load_errors, Continue)

UserMessage(content) == [role |-> "user", content |-> JStr(content)]
AssistantMessage(content) == [role |-> "assistant", content |-> content]

\* What the Chat tab did, and the transcript after it. asked holds the
\* calls of call_bedrock_agent the tab made: the transcript as it was when
\* the call was made, and the dict the call returned.
ChatDone(messages, calls, errors, stop, asked) ==
    [messages |-> messages, calls |-> calls, errors |-> errors, stop |-> stop,
     asked |-> asked]

\* response = call_bedrock_agent(prompt), made with the transcript `sent`
Asked(sent, response) == <<[transcript |-> sent, response |-> response]>>

\* Ask with the reply appended whether or not the call succeeded.
AskAlwaysReplying(messages, prompt, env) ==
    LET asked == AskAgent(env.agent)
        sent == Append(messages, UserMessage(prompt))
    IN  IF asked.raised
        THEN ChatDone(sent, asked.calls, <<>>, Crash, Asked(sent, asked.response))
        ELSE ChatDone(Append(sent, AssistantMessage(asked.response.message)),
                      asked.calls,
                      IF asked.response.success THEN <<>>
                      ELSE <<"Failed to get response">>,
                      Continue, Asked(sent, asked.response))

\* handle_predefined_question, and the same lines under st.chat_input: the
\* user message is appended, then the agent is asked, then the reply is
\* appended if the call succeeded.
Ask(messages, prompt, env) ==
    LET asked == AskAgent(env.agent)
        sent == Append(messages, UserMessage(prompt))
    IN  IF asked.raised
        THEN ChatDone(sent, asked.calls, <<>>, Crash, Asked(sent, asked.response))
        ELSE IF asked.response.success
        THEN ChatDone(Append(sent, AssistantMessage(asked.response.message)),
                      asked.calls, <<>>, Continue, Asked(sent, asked.response))
        ELSE ChatDone(sent, asked.calls, <<"Failed to get response">>, Continue,
                      Asked(sent, asked.response))

clear_chat_history(messages) == <<>>

\* with tabs[2]: Clear Chat, the question buttons, the chat input.
ChatTab(messages, w, env) ==
    IF w.clear_chat
    THEN ChatDone(clear_chat_history(messages), <<>>, <<>>, Rerun, <<>>)
    ELSE IF w.question # <<>> THEN Ask(messages, w.question, env)
    ELSE IF w.prompt # <<>> THEN Ask(messages, w.prompt, env)
    ELSE ChatDone(messages, <<>>, <<>>, Continue, <<>>)

\* A run of the three tabs in order, as far as it gets; stop is the tab the
\* run ended in and how. Only the Chat tab touches the transcript.
Tabs(messages, analysis, history, chat) ==
    IF analysis.stop # Continue
    THEN ChatDone(messages, analysis.calls, analysis.errors,
                  <<"analysis", analysis.stop>>, <<>>)
    ELSE IF history.stop # Continue
    THEN ChatDone(messages, analysis.calls \o history.calls,
                  analysis.errors \o history.errors, <<"history", history.stop>>,
                  <<>>)
    ELSE ChatDone(chat.messages,
                  analysis.calls \o history.calls \o chat.calls,
                  analysis.errors \o history.errors \o chat.errors,
                  <<"chat", chat.stop>>, chat.asked)

main(messages, w, env) ==
    Tabs(messages, AnalysisTab(w, env), HistoryTab(w, env), ChatTab(messages, w, env))

(***************************************************************************)
(* The runs: what the widgets return.                                      *)
(***************************************************************************)
NoWidget ==
    [raw_url |-> <<>>, analyze |-> FALSE, clear |-> FALSE, refresh |-> FALSE,
     selected |-> 1, clear_chat |-> FALSE, question |-> <<>>, prompt |-> <<>>]

UiUrls == { T(<<" ">>), T(<<"a", ".", "b">>) }

\* One of the nine questions of the buttons.
Questions == { T(<<"H", "o", "w", " ", "d", "o", " ", "y", "o", "u", " ", "m", "e",
        "a", "s", "u", "r", "e", " ", "a", "n", "d", " ", "q", "u", "a", "n",
        "t", "i", "f", "y", " ", "r", "a", "c", "i", "a", "l", " ", "b", "i",
        "a", "s", " ", "i", "n", " ", "c", "o", "n", "t", "e", "n", "t",
        "?">>) }

Prompts == { T(<<"h", "i">>) }

InitUI ==
    /\ pc = "ui"
    /\ ui = [messages |-> <<>>, runs |-> 0, actions |-> 0, action_calls |-> 0,
             trigger |-> "none", calls |-> <<>>, errors |-> <<>>,
             stop |-> <<"none", Rerun>>, asked |-> <<>>]
    /\ raw_url = Idle /\ url = Idle /\ prev_url = Idle
    /\ agent_in = Idle /\ agent_out = Idle
    /\ store_in = Idle /\ store_out = Idle
    /\ fetch_in = Idle /\ fetch_out = Idle

\* Streamlit starts a run itself for the page load and after st.rerun();
\* the user acts on a widget once no such run is due.
RerunPending == ui.stop[2] = Rerun

\* The session after a run: the transcript, the runs and the user's actions
\* so far with the remote calls made in the runs of the actions, and what
\* the latest run was and did, the calls of the agent in its Chat tab
\* included.
AfterRun(before, trigger, ran) ==
    [messages |-> ran.messages,
     runs |-> before.runs + 1,
     actions |-> before.actions + (IF trigger = "script" THEN 0 ELSE 1),
     action_calls |-> before.action_calls
                        + (IF trigger = "script" THEN 0 ELSE Len(ran.calls)),
     trigger |-> trigger,
     calls |-> ran.calls,
     errors |-> ran.errors,
     stop |-> ran.stop,
     asked |-> ran.asked]

\* One run of main with the widget values w, started by `trigger`.
Run(trigger, w) ==
    /\ pc = "ui"
    /\ ui.runs < MaxRuns
    /\ \E env \in UiEnvs : ui' = AfterRun(ui, trigger, main(ui.messages, w, env))
    /\ UNCHANGED <<pc, urlVars, agentVars, storeVars>>

RunScript == RerunPending /\ Run("script", NoWidget)

EditUrl ==
    /\ ~RerunPending
    /\ \E raw \in UiUrls : Run("edit", [NoWidget EXCEPT !.raw_url = raw])

\* The Analyze button is disabled while url is empty.
SubmitUrl ==
    /\ ~RerunPending
    /\ \E raw \in UiUrls :
        /\ preprocess_url(raw) # <<>>
        /\ Run("analyze", [NoWidget EXCEPT !.raw_url = raw, !.analyze = TRUE])

ClickClear == ~RerunPending /\ Run("clear", [NoWidget EXCEPT !.clear = TRUE])

ClickRefresh == ~RerunPending /\ Run("refresh", [NoWidget EXCEPT !.refresh = TRUE])

SelectHistory ==
    /\ ~RerunPending
    /\ \E k \in 1..2 : Run("select", [NoWidget EXCEPT !.selected = k])

ClickClearChat ==
    ~RerunPending /\ Run("clear_chat", [NoWidget EXCEPT !.clear_chat = TRUE])

ClickQuestion ==
    /\ ~RerunPending
    /\ \E q \in Questions : Run("question", [NoWidget EXCEPT !.question = q])

SendChat ==
    /\ ~RerunPending
    /\ \E p \in Prompts : Run("chat", [NoWidget EXCEPT !.prompt = p])

NextUI ==
    \/ RunScript
    \/ EditUrl
    \/ SubmitUrl
    \/ ClickClear
    \/ ClickRefresh
    \/ SelectHistory
    \/ ClickClearChat
    \/ ClickQuestion
    \/ SendChat

SpecUI == InitUI /\ [][NextUI]_vars

(***************************************************************************)
(* Claim about the remote calls of the UI actions.                         *)
(***************************************************************************)
Occurrences(calls, op) == Cardinality({i \in 1..Len(calls) : calls[i] = op})

RemoteOperations == {INVOKE_AGENT, REQUESTS_GET, LIST_OBJECTS, GET_OBJECT}

\* The service of a call; the presigned URL is a URL of the store.
Service(op) == IF op = INVOKE_AGENT THEN "agent" ELSE "store"
Services(calls) == {Service(calls[i]) : i \in 1..Len(calls)}

Follows(calls, op, before) ==
    \A i \in 1..Len(calls) : calls[i] = op => i > 1 /\ calls[i - 1] = before

UserActions == {"analyze", "question", "chat", "select"}

Sends == {"question", "chat"}

Roles(messages) == [i \in 1..Len(messages) |-> messages[i].role]

\* The transcript `sent` is `before` with exactly one user message appended.
OneUserMessageAppended(before, sent) ==
    /\ Len(sent) = Len(before) + 1
    /\ SubSeq(sent, 1, Len(before)) = before
    /\ sent[Len(sent)].role = "user"
    /\ sent[Len(sent)].content \in {JStr(p) : p \in Prompts \cup Questions}

\* The transcript `after` is `sent` followed by the reply of a call that
\* succeeded, and `sent` itself after a call that failed.
ReplyAppendedOnSuccess(sent, response, after) ==
    IF response.success
    THEN after = Append(sent, [role |-> "assistant", content |-> response.message])
    ELSE after = sent

\* What one run of the script does to the transcript.
TranscriptStep ==
    IF ui'.trigger \in Sends
    THEN /\ Len(ui'.asked) = 1
         /\ OneUserMessageAppended(ui.messages, ui'.asked[1].transcript)
         /\ ReplyAppendedOnSuccess(ui'.asked[1].transcript, ui'.asked[1].response,
                                   ui'.messages)
    ELSE IF ui'.trigger = "clear_chat"
    THEN ui'.messages = <<>>
    ELSE /\ ui'.messages = ui.messages
         /\ ui'.asked = <<>>

\* Every assistant message comes directly after a user message.
RepliesFollowPrompts ==
    \A i \in 1..Len(ui.messages) :
        ui.messages[i].role = "assistant"
            => (i > 1 /\ ui.messages[i - 1].role = "user")

\* C11: every chat send appends exactly one user message before the agent is
\* called, and the reply of the agent directly after it only if the call
\* returned success, carrying the returned message; the messages already in
\* the transcript stay as they are and in their order; only Clear Chat
\* removes messages, and it removes all of them; so every assistant message
\* is directly preceded by a user message, and a failed call leaves a user
\* message without a reply.
C11_TranscriptGrowsByTurns ==
    /\ [](pc = "ui" => RepliesFollowPrompts)
    /\ [][pc = "ui" => TranscriptStep]_vars

\* A prompt was answered, and the next one was sent and its call failed.
C11_Witness ==
    /\ pc = "ui"
    /\ ui.trigger \in Sends
    /\ Roles(ui.messages) = <<"user", "assistant", "user">>
    /\ Len(ui.asked) = 1
    /\ ~ui.asked[1].response.success
    /\ Len(ui.asked[1].transcript) = 3

\* The transcript was emptied by Clear Chat after a prompt had been sent.
C11_Cleared ==
    /\ pc = "ui"
    /\ ui.trigger = "clear_chat"
    /\ ui.messages = <<>>
    /\ ui.actions = 2

====
